---- MODULE Spec2Model ----
(***************************************************************************)
(* Model of the Ant Design token language server: the workspace scanner    *)
(* (scanAndIndexTokens and its extractors), the token index, and the       *)
(* AntdLs server handlers that start scans and answer hover / definition   *)
(* queries.                                                                *)
(*                                                                         *)
(* Strings are JavaScript strings; positions are 0-based as in the LSP,    *)
(* while TLA+ sequences and strings are indexed from 1.                    *)
(***************************************************************************)
EXTENDS Integers, Sequences, FiniteSets, Bags, TLC

VARIABLES
  fs,             \* the workspace on disk: path -> the version of the file there
  unreadable,     \* directories whose readdir fails with an I/O error
  fsChanges,      \* number of changes made to the workspace so far
  lifecycle,      \* LSP handshake position of the client
  rootPath,       \* AntdLs.rootPath
  isInitialized,  \* AntdLs.isInitialized
  tokenIndex,     \* AntdLs.tokenIndex : name -> list of TokenData
  scans,          \* every scanAndIndexTokens call started so far
  openDocs,       \* uris the TextDocuments manager holds
  lastHover,      \* the latest hover request and its answer
  lastDefinition, \* the latest definition request and its answer
  notifications,  \* didChangeWatchedFiles notifications not yet delivered
  baseline,       \* index left by the first undisturbed scan of the workspace as it is
  call            \* a function of the scanner or of util applied on its own:
                  \* its arguments and, once it has returned, its result

\* the state of the server and of its workspace
serverVars == <<fs, unreadable, fsChanges, lifecycle, rootPath, isInitialized,
                tokenIndex, scans, openDocs, lastHover, lastDefinition,
                notifications, baseline>>

vars == <<serverVars, call>>

----------------------------------------------------------------------------
(* Bounds of the model *)

\* scanAndIndexTokens calls per run
MaxScans == 2
\* changes to the workspace per run
MaxFsChanges == 1

----------------------------------------------------------------------------
(* Strings *)

\* the characters m..n of s that exist (1-based, inclusive)
Sub(s, m, n) ==
  LET from == IF m < 1 THEN 1 ELSE m
      to == IF n > Len(s) THEN Len(s) ELSE n
  IN IF from > to THEN "" ELSE SubSeq(s, from, to)

Char(s, i) == Sub(s, i, i)

LowerLetters == "abcdefghijklmnopqrstuvwxyz"
UpperLetters == "ABCDEFGHIJKLMNOPQRSTUVWXYZ"
Digits == "0123456789"

CharsOf(s) == { Char(s, i) : i \in 1..Len(s) }

LetterChars == CharsOf(LowerLetters) \cup CharsOf(UpperLetters)

\* the regular-expression class \w
WordChars == LetterChars \cup CharsOf(Digits) \cup {"_"}

\* the regular-expression class [\w-]
WordOrHyphenChars == WordChars \cup {"-"}

StartsWith(s, p) == Len(s) >= Len(p) /\ Sub(s, 1, Len(p)) = p

EndsWith(s, p) == Len(s) >= Len(p) /\ Sub(s, Len(s) - Len(p) + 1, Len(s)) = p

Includes(s, sub) ==
  \E i \in 1..(Len(s) - Len(sub) + 1) : Sub(s, i, i + Len(sub) - 1) = sub

ToLowerChar(c) ==
  IF \E i \in 1..26 : Char(UpperLetters, i) = c
  THEN Char(LowerLetters, CHOOSE i \in 1..26 : Char(UpperLetters, i) = c)
  ELSE c

RECURSIVE ToLowerCase(_)
ToLowerCase(s) ==
  IF Len(s) = 0 THEN "" ELSE ToLowerChar(Char(s, 1)) \o ToLowerCase(Sub(s, 2, Len(s)))

\* Array.prototype.join
RECURSIVE Join(_, _)
Join(parts, sep) ==
  IF Len(parts) = 0 THEN ""
  ELSE IF Len(parts) = 1 THEN parts[1]
  ELSE parts[1] \o sep \o Join(Tail(parts), sep)

\* the end (1-based, inclusive) of the maximal run of characters of class cls
\* that starts at i; i - 1 when the character at i is not in cls
RECURSIVE RunEnd(_, _, _)
RunEnd(s, i, cls) ==
  IF i <= Len(s) /\ Char(s, i) \in cls THEN RunEnd(s, i + 1, cls) ELSE i - 1

\* results.flat()
RECURSIVE Flat(_)
Flat(seqs) == IF Len(seqs) = 0 THEN <<>> ELSE Head(seqs) \o Flat(Tail(seqs))

----------------------------------------------------------------------------
(* Token names *)

commonAntdTokens ==
  { "colorPrimary", "colorSuccess", "colorWarning", "colorError", "colorInfo",
    "colorTextBase", "colorBgBase", "colorText", "colorTextSecondary",
    "borderRadius", "borderRadiusLG", "borderRadiusSM", "borderRadiusXS",
    "fontSize", "fontSizeLG", "fontSizeSM", "fontSizeXL",
    "lineHeight", "lineHeightLG", "lineHeightSM",
    "spacing", "spacingXS", "spacingSM", "spacingLG", "spacingXL",
    "controlHeight", "controlHeightLG", "controlHeightSM",
    "motionDurationSlow", "motionDurationMid", "motionDurationFast" }

prefixes == {"color", "font", "line", "border", "spacing", "control", "motion", "size"}

states == {"primary", "secondary", "success", "warning", "error", "info"}

\* a variant that also accepts the family suffixes
isLikelyTokenNameWithSuffixes(name) ==
  \/ \E prefix \in prefixes :
       /\ StartsWith(name, prefix)
       /\ Len(name) > Len(prefix)
       /\ Char(name, Len(prefix) + 1) \in LetterChars
  \/ \E state \in states : Includes(ToLowerCase(name), state)
  \/ \E suffix \in {"Radius", "Height", "Duration", "Width", "Size"} : EndsWith(name, suffix)

isLikelyTokenName(name) ==
  LET prefixMatch ==
        \E prefix \in prefixes :
          /\ StartsWith(name, prefix)
          /\ Len(name) > Len(prefix)
          /\ Char(name, Len(prefix) + 1) \in LetterChars
      stateMatch == \E state \in states : Includes(ToLowerCase(name), state)
  IN prefixMatch \/ stateMatch

\* the test both the ts-morph pass and the JSON extractor apply to a key
isTokenKey(key) == key \in commonAntdTokens \/ isLikelyTokenName(key)

----------------------------------------------------------------------------
(* Token index *)

NoContext == "undefined"

TokenData(uri, value, line, character, source, context) ==
  [uri |-> uri, value |-> value,
   position |-> [line |-> line, character |-> character],
   source |-> source, context |-> context]

EmptyIndex == [n \in {} |-> <<>>]

\* a variant that stores the definition in place of the name's list
addTokenToIndexOverwriting(index, name, data) ==
  [n \in (DOMAIN index) \cup {name} |-> IF n = name THEN <<data>> ELSE index[n]]

\* addTokenToIndex: append to the name's list, creating it for a first definition
addTokenToIndex(index, name, data) ==
  IF name \in DOMAIN index
  THEN [index EXCEPT ![name] = Append(@, data)]
  ELSE [n \in (DOMAIN index) \cup {name} |-> IF n = name THEN <<data>> ELSE index[n]]

\* a variant that leaves the index as it is
clearSkipped(index) == index

\* tokenIndex.clear()
clear(index) == EmptyIndex

\* the extractors report what they add as a list of <<name, data>> pairs, in
\* the order of their addTokenToIndex calls
RECURSIVE AddAll(_, _)
AddAll(index, adds) ==
  IF Len(adds) = 0 THEN index
  ELSE AddAll(addTokenToIndex(index, Head(adds)[1], Head(adds)[2]), Tail(adds))

----------------------------------------------------------------------------
(* Script files: the syntax tree the TypeScript parser returns.            *)
(* An expression is a record [e, text, raw, props, line]: e is the node    *)
(* kind, text the literal's or identifier's text, raw the source text of   *)
(* the node, props the property assignments of an object literal, line the *)
(* line the node starts on.  A property assignment is [key, line, col,     *)
(* init] with the position of its name.  A declaration is [node, name,     *)
(* type, init, attrs]: a variable declaration or a JSX element.            *)

StringLiteral(text, line) ==
  [e |-> "StringLiteral", text |-> text, raw |-> "'" \o text \o "'", props |-> <<>>, line |-> line]
NumericLiteral(text, raw, line) ==
  [e |-> "NumericLiteral", text |-> text, raw |-> raw, props |-> <<>>, line |-> line]
Identifier(text, line) ==
  [e |-> "Identifier", text |-> text, raw |-> text, props |-> <<>>, line |-> line]
OtherExpression(raw, line) ==
  [e |-> "Other", text |-> "", raw |-> raw, props |-> <<>>, line |-> line]
ObjectLiteral(props, raw, line) ==
  [e |-> "ObjectLiteralExpression", text |-> "", raw |-> raw, props |-> props, line |-> line]
PropertyAssignment(key, line, col, init) ==
  [key |-> key, line |-> line, col |-> col, init |-> init]
VariableDeclaration(name, type, init) ==
  [node |-> "VariableDeclaration", name |-> name, type |-> type, init |-> init, attrs |-> <<>>]
JsxElement(tag, attrs) ==
  [node |-> "JsxElement", name |-> tag, type |-> "", init |-> OtherExpression("", 0), attrs |-> attrs]
JsxAttribute(name, expr) == [name |-> name, expr |-> expr]
\* token.colorPrimary: a property access, chain its names from the left and
\* col the column of its last name
PropertyAccessExpression(chain, line, col) ==
  [e |-> "PropertyAccessExpression", text |-> "", raw |-> Join(chain, "."),
   props |-> <<>>, line |-> line, col |-> col, chain |-> chain]
\* a template literal with the property accesses of its spans
TemplateExpression(raw, spans, line) ==
  [e |-> "TemplateExpression", text |-> "", raw |-> raw, props |-> <<>>,
   line |-> line, spans |-> spans]
\* useToken(): a call of an identifier, col the column the call starts at
CallExpression(callee, line, col) ==
  [e |-> "CallExpression", text |-> "", raw |-> callee \o "()", props |-> <<>>,
   line |-> line, col |-> col, callee |-> callee]
\* const { token } = useToken(): a variable declaration whose name is an
\* object binding pattern with the given element names
BindingDeclaration(elements, init) ==
  [node |-> "VariableDeclaration", name |-> "", type |-> "", init |-> init,
   attrs |-> <<>>, elements |-> elements]

extractValue(node) ==
  IF node.e \in {"StringLiteral", "NumericLiteral"} THEN node.text
  ELSE IF node.e = "Identifier" THEN node.text
  ELSE node.raw

\* the loop over the properties of a token object that extractFromThemeConfig
\* and extractTokensFromThemeObject share
TokenObjectAdds(filePath, tokenObject, source, context) ==
  [i \in 1..Len(tokenObject.props) |->
     LET prop == tokenObject.props[i]
     IN <<prop.key,
          TokenData(filePath, extractValue(prop.init), prop.line, prop.col, source, context)>>]

\* the token objects directly inside an object literal: every property named
\* token whose initializer is an object literal
TokenObjectsOf(obj) ==
  IF obj.e # "ObjectLiteralExpression" THEN <<>>
  ELSE SelectSeq([i \in 1..Len(obj.props) |-> obj.props[i]],
                 LAMBDA p : p.key = "token" /\ p.init.e = "ObjectLiteralExpression")

extractFromThemeConfig(decls, filePath) ==
  LET themeIdentifiers ==
        { decls[i].name : i \in { j \in 1..Len(decls) :
             decls[j].node = "VariableDeclaration" /\ decls[j].type = "ThemeConfig" } }
      OfDecl(d) ==
        IF d.node = "VariableDeclaration" /\ d.name \in themeIdentifiers
        THEN LET objs == TokenObjectsOf(d.init)
             IN Flat([k \in 1..Len(objs) |->
                        TokenObjectAdds(filePath, objs[k].init, "themeConfig", d.name)])
        ELSE <<>>
  IN Flat([i \in 1..Len(decls) |-> OfDecl(decls[i])])

extractTokensFromThemeObject(node, filePath, source) ==
  LET objs == TokenObjectsOf(node)
  IN Flat([k \in 1..Len(objs) |->
             TokenObjectAdds(filePath, objs[k].init, source, "theme-object")])

extractFromConfigProvider(decls, filePath) ==
  LET OfDecl(d) ==
        IF d.node = "JsxElement" /\ d.name = "ConfigProvider"
        THEN Flat([a \in 1..Len(d.attrs) |->
                     IF d.attrs[a].name = "theme"
                     THEN extractTokensFromThemeObject(d.attrs[a].expr, filePath, "configProvider")
                     ELSE <<>>])
        ELSE <<>>
  IN Flat([i \in 1..Len(decls) |-> OfDecl(decls[i])])

\* forEachDescendant: the property assignments below an expression, in
\* document order
RECURSIVE PropertyAssignmentsIn(_)
PropertyAssignmentsIn(expr) ==
  Flat([i \in 1..Len(expr.props) |->
          <<expr.props[i]>> \o PropertyAssignmentsIn(expr.props[i].init)])

extractWithTsMorph(decls, filePath) ==
  LET OfDecl(d) ==
        IF d.node = "VariableDeclaration" THEN PropertyAssignmentsIn(d.init)
        ELSE Flat([a \in 1..Len(d.attrs) |-> PropertyAssignmentsIn(d.attrs[a].expr)])
      all == Flat([i \in 1..Len(decls) |-> OfDecl(decls[i])])
      accepted == SelectSeq(all, LAMBDA p : isTokenKey(p.key))
  IN [i \in 1..Len(accepted) |->
        <<accepted[i].key,
          TokenData(filePath, accepted[i].init.raw, accepted[i].init.line, 0,
                    "themeConfig", NoContext)>>]

isTokenAccess(chain) ==
  IF Len(chain) < 2 THEN FALSE
  ELSE \/ \E i \in 1..Len(chain) : chain[i] = "token"
       \/ chain[1] = "token"
       \/ chain[Len(chain) - 1] = "token"

\* the property accesses below an expression, in document order
RECURSIVE PropertyAccessesIn(_)
PropertyAccessesIn(expr) ==
  IF expr.e = "PropertyAccessExpression" THEN <<expr>>
  ELSE IF expr.e = "TemplateExpression" THEN expr.spans
  ELSE Flat([i \in 1..Len(expr.props) |-> PropertyAccessesIn(expr.props[i].init)])

\* the hook extractor: a useToken() or getToken() call that initializes a
\* variable declaration records the destructured token element, or the
\* variable itself
extractFromTokenHooks(decls, filePath) ==
  LET OfDecl(d) ==
        IF d.node = "VariableDeclaration" /\ d.init.e = "CallExpression"
           /\ d.init.callee \in {"useToken", "getToken"}
        THEN IF d.name = ""
             THEN LET tokens == SelectSeq(d.elements, LAMBDA el : el = "token")
                  IN [k \in 1..Len(tokens) |->
                        <<"token", TokenData(filePath, "useToken().token", d.init.line,
                                             d.init.col, d.init.callee, "hook")>>]
             ELSE <<<<d.name, TokenData(filePath, d.init.raw, d.init.line, d.init.col,
                                        d.init.callee, "hook")>>>>
        ELSE <<>>
  IN Flat([i \in 1..Len(decls) |-> OfDecl(decls[i])])

\* the property-access extractor: every token access whose last name the
\* token-name predicate accepts is recorded under that name
extractTokenPropertyAccess(decls, filePath) ==
  LET OfDecl(d) ==
        IF d.node = "VariableDeclaration" THEN PropertyAccessesIn(d.init)
        ELSE Flat([a \in 1..Len(d.attrs) |-> PropertyAccessesIn(d.attrs[a].expr)])
      all == Flat([i \in 1..Len(decls) |-> OfDecl(decls[i])])
      accepted == SelectSeq(all, LAMBDA n : isTokenAccess(n.chain)
                                            /\ isTokenKey(n.chain[Len(n.chain)]))
  IN [i \in 1..Len(accepted) |->
        <<accepted[i].chain[Len(accepted[i].chain)],
          TokenData(filePath, accepted[i].raw, accepted[i].line, accepted[i].col,
                    "useToken", "property-access")>>]

\* the script extractor with its two hook passes switched on
extractFromTsxTsWithHooks(filePath, content) ==
     extractFromThemeConfig(content.decls, filePath)
  \o extractFromConfigProvider(content.decls, filePath)
  \o extractFromTokenHooks(content.decls, filePath)
  \o extractTokenPropertyAccess(content.decls, filePath)
  \o (IF EndsWith(filePath, ".ts") \/ EndsWith(filePath, ".tsx")
      THEN extractWithTsMorph(content.decls, filePath)
      ELSE <<>>)

\* the hook passes are commented out in the source: only the theme
\* configuration, the provider and the ts-morph pass run
extractFromTsxTs(filePath, content) ==
     extractFromThemeConfig(content.decls, filePath)
  \o extractFromConfigProvider(content.decls, filePath)
  \o (IF EndsWith(filePath, ".ts") \/ EndsWith(filePath, ".tsx")
      THEN extractWithTsMorph(content.decls, filePath)
      ELSE <<>>)

----------------------------------------------------------------------------
(* JSON files: the text is a sequence of tokens [t, v], t one of "{", "}", *)
(* "key", "str", "num"; separators are left out.                           *)

LBrace == [t |-> "{", v |-> ""]
RBrace == [t |-> "}", v |-> ""]
Key(k) == [t |-> "key", v |-> k]
Str(s) == [t |-> "str", v |-> s]
Num(n) == [t |-> "num", v |-> n]

NoKey == [t |-> "none", v |-> ""]

\* JSON.stringify of a string or number value
JsonStringify(tok) == IF tok.t = "str" THEN "\"" \o tok.v \o "\"" ELSE tok.v

\* JSON5.parse followed by collectTokens: reads the token at i inside depth
\* open objects reached through the keys of path, key being the key whose
\* value comes next.  A document that does not parse yields no definition,
\* because parse throws before collectTokens runs.
RECURSIVE JsonWalk(_, _, _, _, _, _, _)
JsonWalk(filePath, toks, i, path, depth, key, acc) ==
  IF i > Len(toks)
  THEN [ok |-> (depth = 0 /\ key = NoKey /\ i > 1), adds |-> acc]
  ELSE
    LET tok == toks[i]
        Fail == [ok |-> FALSE, adds |-> <<>>]
    IN
    IF depth = 0
    THEN IF i # 1 THEN Fail
         ELSE IF tok.t = "{" THEN JsonWalk(filePath, toks, i + 1, <<>>, 1, NoKey, acc)
         ELSE IF tok.t \in {"str", "num"} THEN JsonWalk(filePath, toks, i + 1, <<>>, 0, NoKey, acc)
         ELSE Fail
    ELSE IF key = NoKey
    THEN IF tok.t = "key" THEN JsonWalk(filePath, toks, i + 1, path, depth, tok, acc)
         ELSE IF tok.t = "}"
         THEN JsonWalk(filePath, toks, i + 1,
                       IF depth > 1 THEN SubSeq(path, 1, Len(path) - 1) ELSE path,
                       depth - 1, NoKey, acc)
         ELSE Fail
    ELSE LET fullPath == Append(path, key.v)
         IN IF tok.t \in {"str", "num"}
            THEN JsonWalk(filePath, toks, i + 1, path, depth, NoKey,
                          IF isTokenKey(key.v)
                          THEN Append(acc, <<key.v, TokenData(filePath, JsonStringify(tok), 0, 0,
                                                             "json", Join(fullPath, "."))>>)
                          ELSE acc)
            ELSE IF tok.t = "{"
            THEN JsonWalk(filePath, toks, i + 1, fullPath, depth + 1, NoKey, acc)
            ELSE Fail

JsonParses(content) == JsonWalk("", content.toks, 1, <<>>, 0, NoKey, <<>>).ok

extractFromJson(filePath, content) ==
  LET r == JsonWalk(filePath, content.toks, 1, <<>>, 0, NoKey, <<>>)
  IN IF r.ok THEN r.adds ELSE <<>>

----------------------------------------------------------------------------
(* CSS, LESS and SCSS files: the text is a sequence of lines *)

\* Array.from(line.matchAll(/@([\w-]+)/g)) from column i on
RECURSIVE StyleMatches(_, _)
StyleMatches(line, i) ==
  IF i > Len(line) THEN <<>>
  ELSE IF Char(line, i) = "@" /\ RunEnd(line, i + 1, WordOrHyphenChars) > i
  THEN LET j == RunEnd(line, i + 1, WordOrHyphenChars)
       IN <<[token |-> Sub(line, i + 1, j), index |-> i - 1]>> \o StyleMatches(line, j + 1)
  ELSE StyleMatches(line, i + 1)

\* a variant that records the first match of a line only
extractFromCssLikeFirstMatch(filePath, content) ==
  Flat([l \in 1..Len(content.lines) |->
          LET matches == StyleMatches(content.lines[l], 1)
          IN [m \in 1..(IF Len(matches) > 0 THEN 1 ELSE 0) |->
                <<matches[m].token,
                  TokenData(filePath, matches[m].token, l - 1, matches[m].index, "css", NoContext)>>]])

extractFromCssLike(filePath, content) ==
  Flat([l \in 1..Len(content.lines) |->
          LET matches == StyleMatches(content.lines[l], 1)
          IN [m \in 1..Len(matches) |->
                <<matches[m].token,
                  TokenData(filePath, matches[m].token, l - 1, matches[m].index, "css", NoContext)>>]])

----------------------------------------------------------------------------
(* File contents *)

ScriptFile(decls) == [decls |-> decls, toks |-> <<>>, lines |-> <<>>]
JsonFile(toks) == [decls |-> <<>>, toks |-> toks, lines |-> <<>>]
StyleFile(lines) == [decls |-> <<>>, toks |-> <<>>, lines |-> lines]

\* what fs holds for a path: no file (never there, or deleted), the file as
\* first written, the file after an edit
NoFile == "absent"
Deleted == "deleted"
FirstVersion == "first"
EditedVersion == "edited"

IsScriptPath(filePath) ==
  \E x \in {".ts", ".tsx", ".js", ".jsx"} : EndsWith(filePath, x)
IsJsonPath(filePath) == EndsWith(filePath, ".json")
IsStylePath(filePath) ==
  \E x \in {".css", ".less", ".scss"} : EndsWith(filePath, x)

supportedExtensions(filePath) ==
  IsScriptPath(filePath) \/ IsJsonPath(filePath) \/ IsStylePath(filePath)

ignoredDirs == {"node_modules", "dist", "build", ".git", ".next", "out"}

\* the body of the per-file task of scanAndIndexTokens after readFile
ExtractFile(filePath, content) ==
  IF IsScriptPath(filePath) THEN extractFromTsxTs(filePath, content)
  ELSE IF IsJsonPath(filePath) THEN extractFromJson(filePath, content)
  ELSE IF IsStylePath(filePath) THEN extractFromCssLike(filePath, content)
  ELSE <<>>

----------------------------------------------------------------------------
(* The workspace.  A path is the sequence of its components below the root *)

Root == "/ws"

\* path.join(dir, entry.name), down from the root
PathJoin(root, path) == Join(<<root>> \o path, "/")

AppTsx == <<"App.tsx">>
ThemeJson == <<"theme.json">>
BadJson == <<"bad.json">>
BrokenTsx == <<"broken.tsx">>
StylesLess == <<"styles.less">>
IgnoredTsx == <<"node_modules", "ignored.tsx">>
ValidTsx == <<"src", "valid.tsx">>
DeepJson == <<"src", "dist", "deep.json">>
SecretJson == <<"locked", "secret.json">>
Readme == <<"README.md">>
ComponentTsx == <<"Component.tsx">>

Paths ==
  {AppTsx, ThemeJson, BadJson, BrokenTsx, StylesLess, IgnoredTsx, ValidTsx,
   DeepJson, SecretJson, Readme, ComponentTsx}

\* the order in which readdir lists the entries of a directory
EntryOrder ==
  <<"App.tsx", "Component.tsx", "README.md", "bad.json", "broken.tsx", "deep.json", "dist",
    "ignored.tsx", "locked", "node_modules", "secret.json", "src",
    "styles.less", "theme.json", "valid.tsx">>

Prefix(path, n) == SubSeq(path, 1, n)

Dirs == UNION { { Prefix(p, n) : n \in 0..(Len(p) - 1) } : p \in Paths }

\* <ConfigProvider theme={{ token: { colorPrimary: '#1890ff', borderRadius: 8 } }}>
AppTsxText ==
  ScriptFile(<<
    JsxElement("ConfigProvider", <<
      JsxAttribute("theme",
        ObjectLiteral(<<
          PropertyAssignment("token", 2, 11,
            ObjectLiteral(<<
              PropertyAssignment("colorPrimary", 2, 20, StringLiteral("#1890ff", 2)),
              PropertyAssignment("borderRadius", 3, 20, NumericLiteral("8", "8", 3))>>,
              "{ colorPrimary: '#1890ff', borderRadius: 8 }", 2))>>,
          "{ token: { colorPrimary: '#1890ff', borderRadius: 8 } }", 2))>>)>>)

\* the same file after an edit: <ConfigProvider theme={{ token: { colorInfo: '#00f' } }}>
AppTsxEdited ==
  ScriptFile(<<
    JsxElement("ConfigProvider", <<
      JsxAttribute("theme",
        ObjectLiteral(<<
          PropertyAssignment("token", 2, 11,
            ObjectLiteral(<<
              PropertyAssignment("colorInfo", 2, 20, StringLiteral("#00f", 2))>>,
              "{ colorInfo: '#00f' }", 2))>>,
          "{ token: { colorInfo: '#00f' } }", 2))>>)>>)

\* {"theme":{"token":{"colorPrimary":"#1890ff"}}}
ThemeJsonText ==
  JsonFile(<<LBrace, Key("theme"), LBrace, Key("token"), LBrace,
             Key("colorPrimary"), Str("#1890ff"), RBrace, RBrace, RBrace>>)

\* { "colorError": "#f00"     (never closed)
BadJsonText == JsonFile(<<LBrace, Key("colorError"), Str("#f00")>>)

\* const invalid = { colorWarning: '#fa0'   (never closed): the tolerant
\* parser still returns the declaration and its property
BrokenTsxText ==
  ScriptFile(<<
    VariableDeclaration("invalid", "",
      ObjectLiteral(<<PropertyAssignment("colorWarning", 0, 18, StringLiteral("#fa0", 0))>>,
                    "{ colorWarning: '#fa0'", 0))>>)

\* @primary-color: #1890ff;
\* .btn { color: @primary-color; }
StylesLessText == StyleFile(<<"@primary-color: #1890ff;", ".btn { color: @primary-color; }">>)

\* const theme = { token: { colorIgnored: '#000' } };
IgnoredTsxText ==
  ScriptFile(<<
    VariableDeclaration("theme", "",
      ObjectLiteral(<<
        PropertyAssignment("token", 0, 16,
          ObjectLiteral(<<PropertyAssignment("colorIgnored", 0, 25, StringLiteral("#000", 0))>>,
                        "{ colorIgnored: '#000' }", 0))>>,
        "{ token: { colorIgnored: '#000' } }", 0))>>)

\* const theme: ThemeConfig = { token: { colorPrimary: '#fff' } };
ValidTsxText ==
  ScriptFile(<<
    VariableDeclaration("theme", "ThemeConfig",
      ObjectLiteral(<<
        PropertyAssignment("token", 0, 29,
          ObjectLiteral(<<PropertyAssignment("colorPrimary", 0, 38, StringLiteral("#fff", 0))>>,
                        "{ colorPrimary: '#fff' }", 0))>>,
        "{ token: { colorPrimary: '#fff' } }", 0))>>)

\* {"token":{"colorSuccess":"#0f0"}}
TokenJsonText ==
  JsonFile(<<LBrace, Key("token"), LBrace, Key("colorSuccess"), Str("#0f0"), RBrace, RBrace>>)

ReadmeText == StyleFile(<<"@colorPrimary is documented here">>)

\* const Component = () => {
\*   const { token } = useToken();
\*   return (
\*     <div style={{
\*       backgroundColor: token.colorPrimary,
\*       borderRadius: token.borderRadius,
\*       fontSize: token.fontSize,
\*       margin: ${token.marginSM}px ${token.marginLG}px   (a template literal)
\*     }}>
ComponentTsxText ==
  ScriptFile(<<
    VariableDeclaration("Component", "", OtherExpression("() => { ... }", 4)),
    BindingDeclaration(<<"token">>, CallExpression("useToken", 5, 20)),
    JsxElement("div", <<
      JsxAttribute("style",
        ObjectLiteral(<<
          PropertyAssignment("backgroundColor", 9, 6,
            PropertyAccessExpression(<<"token", "colorPrimary">>, 9, 29)),
          PropertyAssignment("borderRadius", 10, 6,
            PropertyAccessExpression(<<"token", "borderRadius">>, 10, 26)),
          PropertyAssignment("fontSize", 11, 6,
            PropertyAccessExpression(<<"token", "fontSize">>, 11, 22)),
          PropertyAssignment("margin", 12, 6,
            TemplateExpression("${token.marginSM}px ${token.marginLG}px",
              <<PropertyAccessExpression(<<"token", "marginSM">>, 12, 23),
                PropertyAccessExpression(<<"token", "marginLG">>, 12, 43)>>, 12))>>,
          "{ ... }", 8))>>)>>)

\* the text of a path in a version
TextOf(path, version) ==
  CASE path = AppTsx /\ version = EditedVersion -> AppTsxEdited
    [] path = AppTsx -> AppTsxText
    [] path = ThemeJson -> ThemeJsonText
    [] path = BadJson -> BadJsonText
    [] path = BrokenTsx -> BrokenTsxText
    [] path = StylesLess -> StylesLessText
    [] path = IgnoredTsx -> IgnoredTsxText
    [] path = ValidTsx -> ValidTsxText
    [] path = DeepJson -> TokenJsonText
    [] path = SecretJson -> TokenJsonText
    [] path = ComponentTsx -> ComponentTsxText
    [] OTHER -> ReadmeText

Workspace(files) == [p \in Paths |-> IF p \in files THEN FirstVersion ELSE NoFile]

\* the paths that are deleted, edited and restored while the server runs;
\* no path that was never there appears
Volatile == {AppTsx}

\* the workspaces a run starts from, each with the directories that cannot
\* be read
Workspaces ==
  { [fs |-> Workspace({AppTsx, ThemeJson, IgnoredTsx, DeepJson, Readme}),
     unreadable |-> {}],
    [fs |-> Workspace({BadJson, BrokenTsx, StylesLess}),
     unreadable |-> {}],
    [fs |-> Workspace({ValidTsx, DeepJson, SecretJson}),
     unreadable |-> {<<"locked">>}],
    [fs |-> Workspace({ComponentTsx}),
     unreadable |-> {}] }

----------------------------------------------------------------------------
(* File enumeration *)

\* the paths whose full path passes the supportedExtensions test
SupportedPaths == { p \in Paths : supportedExtensions(PathJoin(Root, p)) }

Exists(disk, path) == path \in Paths /\ disk[path] \in {FirstVersion, EditedVersion}

\* fs.readdir(dir, { withFileTypes: true }): the names below dir, in order
Entries(disk, dir) ==
  SelectSeq(EntryOrder,
            LAMBDA name : Append(dir, name) \in Dirs \/ Exists(disk, Append(dir, name)))

\* a variant that matches the ignore list at the top of the tree only
skipDirectoryAtTopOnly(fullPath, name) == Len(fullPath) = 1 /\ name \in ignoredDirs

\* whether findAllFiles passes over the directory called name at fullPath
skipDirectory(fullPath, name) == name \in ignoredDirs

\* findAllFiles: [err, files]; err when a readdir below dir threw, which
\* rejects the Promise.all of every enclosing call
RECURSIVE findAllFiles(_, _, _)
findAllFiles(disk, locked, dir) ==
  IF dir \in locked THEN [err |-> TRUE, files |-> <<>>]
  ELSE
    LET entries == Entries(disk, dir)
        OfEntry(name) ==
          LET fullPath == Append(dir, name)
          IN IF fullPath \in Dirs /\ skipDirectory(fullPath, name) THEN [err |-> FALSE, files |-> <<>>]
             ELSE IF fullPath \in Dirs THEN findAllFiles(disk, locked, fullPath)
             ELSE IF fullPath \in SupportedPaths
                  THEN [err |-> FALSE, files |-> <<fullPath>>]
             ELSE [err |-> FALSE, files |-> <<>>]
        results == [i \in 1..Len(entries) |-> OfEntry(entries[i])]
    IN IF \E i \in 1..Len(results) : results[i].err
       THEN [err |-> TRUE, files |-> <<>>]
       ELSE [err |-> FALSE, files |-> Flat([i \in 1..Len(results) |-> results[i].files])]

----------------------------------------------------------------------------
(* Scans.  A scan is one call of scanAndIndexTokens:                       *)
(*   origin     the handler that started it                                *)
(*   phase      "enumerating" while findAllFiles is awaited, "extracting"  *)
(*              while per-file tasks are outstanding, "finished" after     *)
(*   files      the list findAllFiles returned                             *)
(*   pending    the files whose task has not run yet                       *)
(*   outcome    of the promise: "pending", "fulfilled" or "rejected"       *)
(*   overlapped whether another scan was in progress during this one       *)
(*   fsStable   whether the workspace stayed unchanged during this one     *)

NewScan(origin, overlapped) ==
  [origin |-> origin, phase |-> "enumerating", files |-> <<>>, pending |-> {},
   outcome |-> "pending", overlapped |-> overlapped, fsStable |-> TRUE]

InProgress(scan) == scan.phase # "finished"

AnyInProgress == \E s \in 1..Len(scans) : InProgress(scans[s])

\* performTokenIndexing with a root path: calls scanAndIndexTokens, which runs
\* up to its first await
StartScan(origin) ==
  Append([s \in 1..Len(scans) |->
            IF InProgress(scans[s]) THEN [scans[s] EXCEPT !.overlapped = TRUE] ELSE scans[s]],
         NewScan(origin, AnyInProgress))

CanStartScan == Len(scans) < MaxScans

\* a variant in which only the caller of the first scan sets the flag
InitializedAfterFirstOnly(origin, outcome) ==
  IF outcome = "fulfilled" /\ origin = "onInitialized" THEN TRUE ELSE isInitialized

\* a variant in which the callers set the flag however the promise settled
InitializedAfterSettled(origin, outcome) ==
  IF outcome # "pending" /\ origin # "handleFileChange" THEN TRUE ELSE isInitialized

\* what the caller of performTokenIndexing does once the promise has settled:
\* onInitialized, onDocumentOpen and the hover fallback set isInitialized
\* after a fulfilled scan; handleFileChange only logs
InitializedAfter(origin, outcome) ==
  IF outcome = "fulfilled" /\ origin # "handleFileChange" THEN TRUE ELSE isInitialized

Undisturbed(scan) == ~scan.overlapped /\ scan.fsStable

NoBaseline == [valid |-> FALSE, index |-> EmptyIndex]

BaselineAfter(scan, index) ==
  IF scan.outcome = "fulfilled" /\ Undisturbed(scan) /\ ~baseline.valid
  THEN [valid |-> TRUE, index |-> index]
  ELSE baseline

\* what the task of a file adds, for every path and version below Root
ExtractTable ==
  [path \in Paths |->
     [version \in {FirstVersion, EditedVersion} |->
        ExtractFile(PathJoin(Root, path), TextOf(path, version))]]

\* the addTokenToIndex calls of the task of a file read in a version
Extracted(root, path, version) ==
  IF root = Root THEN ExtractTable[path][version]
  ELSE ExtractFile(PathJoin(root, path), TextOf(path, version))

\* what findAllFiles returns from the root, for every state of the disk a
\* run can pass through
EnumerationTable ==
  LET disks == { [fs |-> [w.fs EXCEPT ![p] = v], unreadable |-> w.unreadable] :
                   w \in Workspaces, p \in Volatile,
                   v \in {NoFile, Deleted, FirstVersion, EditedVersion} }
  IN [d \in disks |-> findAllFiles(d.fs, d.unreadable, <<>>)]

\* the result of findAllFiles(rootUri) on a disk
Enumerated(disk, locked) ==
  LET d == [fs |-> disk, unreadable |-> locked]
  IN IF d \in DOMAIN EnumerationTable THEN EnumerationTable[d]
     ELSE findAllFiles(disk, locked, <<>>)

\* findAllFiles resolves or rejects; on success the index is cleared and
\* every per-file task is dispatched, all in the same turn
FinishEnumeration(s) ==
  /\ s \in 1..Len(scans)
  /\ scans[s].phase = "enumerating"
  /\ LET found == Enumerated(fs, unreadable)
         scan == scans[s]
         after ==
           IF found.err
           THEN [scan EXCEPT !.phase = "finished", !.outcome = "rejected"]
           ELSE IF Len(found.files) = 0
           THEN [scan EXCEPT !.phase = "finished", !.outcome = "fulfilled"]
           ELSE [scan EXCEPT !.phase = "extracting", !.files = found.files,
                             !.pending = { found.files[i] : i \in 1..Len(found.files) }]
     IN /\ scans' = [scans EXCEPT ![s] = after]
        /\ tokenIndex' = IF found.err THEN tokenIndex ELSE clear(tokenIndex)
        /\ isInitialized' = InitializedAfter(scan.origin, after.outcome)
        /\ baseline' = BaselineAfter(after, tokenIndex')
  /\ UNCHANGED <<call, fs, unreadable, fsChanges, lifecycle, rootPath, openDocs,
                 lastHover, lastDefinition, notifications>>

\* a variant in which a JSON file that does not parse throws as well
taskRejectsOnParseError(disk, path) ==
  \/ ~Exists(disk, path)
  \/ IsJsonPath(PathJoin(Root, path)) /\ ~JsonParses(TextOf(path, disk[path]))

\* whether the task of a file throws: readFile fails when the file is gone;
\* the extractors themselves do not throw, extractFromJson catches the
\* parser's error
taskRejects(disk, path) == ~Exists(disk, path)

\* one per-file task: readFile completes and the extractor for the file's
\* extension runs; a failed read rejects the scan's Promise.all, the other
\* tasks keep running
RunFileTask(s, path) ==
  /\ s \in 1..Len(scans)
  /\ scans[s].phase = "extracting"
  /\ path \in scans[s].pending
  /\ LET scan == scans[s]
         readFails == taskRejects(fs, path)
         left == scan.pending \ {path}
         outcome ==
           IF scan.outcome # "pending" THEN scan.outcome
           ELSE IF readFails THEN "rejected"
           ELSE IF left = {} THEN "fulfilled"
           ELSE "pending"
         after == [scan EXCEPT !.pending = left, !.outcome = outcome,
                               !.phase = IF left = {} THEN "finished" ELSE "extracting"]
     IN /\ scans' = [scans EXCEPT ![s] = after]
        /\ tokenIndex' =
             IF readFails THEN tokenIndex
             ELSE AddAll(tokenIndex, Extracted(rootPath, path, fs[path]))
        /\ isInitialized' =
             IF scan.outcome = "pending" THEN InitializedAfter(scan.origin, outcome)
             ELSE isInitialized
        /\ baseline' =
             IF scan.outcome = "pending" THEN BaselineAfter(after, tokenIndex') ELSE baseline
  /\ UNCHANGED <<call, fs, unreadable, fsChanges, lifecycle, rootPath, openDocs,
                 lastHover, lastDefinition, notifications>>

----------------------------------------------------------------------------
(* The workspace changes under the server *)

Disturb == [s \in 1..Len(scans) |->
              IF InProgress(scans[s]) THEN [scans[s] EXCEPT !.fsStable = FALSE] ELSE scans[s]]

\* the client watches the workspace while the server runs and reports every
\* change to it
FsChange(path, version) ==
  /\ lifecycle = "running"
  /\ fsChanges < MaxFsChanges
  /\ path \in Volatile
  /\ fs[path] # NoFile
  /\ fs[path] # version
  /\ fs' = [fs EXCEPT ![path] = version]
  /\ fsChanges' = fsChanges + 1
  /\ notifications' = notifications + 1
  /\ scans' = Disturb
  /\ baseline' = NoBaseline
  /\ UNCHANGED <<call, unreadable, lifecycle, rootPath, isInitialized, tokenIndex,
                 openDocs, lastHover, lastDefinition>>

\* a file is removed
FsDelete(path) == FsChange(path, Deleted)

\* a file is saved with the text it already has: the watcher reports it, the
\* workspace is the same
FsTouch ==
  /\ lifecycle = "running"
  /\ fsChanges < MaxFsChanges
  /\ \E path \in Volatile : Exists(fs, path)
  /\ fsChanges' = fsChanges + 1
  /\ notifications' = notifications + 1
  /\ UNCHANGED <<call, fs, unreadable, lifecycle, rootPath, isInitialized, tokenIndex,
                 scans, openDocs, lastHover, lastDefinition, baseline>>

\* a file is edited, or a deleted file is written again
FsWrite(path) ==
  \E version \in {FirstVersion, EditedVersion} :
    /\ version = EditedVersion => path = AppTsx
    /\ FsChange(path, version)

----------------------------------------------------------------------------
(* Open documents.  A document is [lines, decls, ast, nodes]: its text, the *)
(* variable declarations of its syntax tree, the property accesses and     *)
(* hook destructurings of the tree in visiting order, and the nodes whose  *)
(* text a lookup can match.  Columns are 0-based.                          *)

PropertyAccess(chain, line, start, end, wrap, wrapStart, wrapEnd) ==
  [node |-> "PropertyAccessExpression", chain |-> chain, line |-> line,
   start |-> start, end |-> end, wrap |-> wrap, wrapStart |-> wrapStart, wrapEnd |-> wrapEnd]

\* const { token } = useToken()
TokenDestructuring(line) ==
  [node |-> "TokenDestructuring", chain |-> <<>>, line |-> line,
   start |-> 0, end |-> 0, wrap |-> "none", wrapStart |-> 0, wrapEnd |-> 0]

Node(text, line, character) == [text |-> text, line |-> line, character |-> character]

ButtonUri == "file:///ws/src/Button.tsx"
LessUri == "file:///ws/styles.less"

\* 0: const { token } = useToken();
\* 1: const s = { color: token.colorPrimary };
\* 2: const local = { token: { fontSize: 14 } };
\* 3: const n = local.token.fontSize;
\* 4: const w = <p w={token.borderRadius} />;
ButtonDoc ==
  [lines |-> <<"const { token } = useToken();",
               "const s = { color: token.colorPrimary };",
               "const local = { token: { fontSize: 14 } };",
               "const n = local.token.fontSize;",
               "const w = <p w={token.borderRadius} />;">>,
   decls |-> <<
     VariableDeclaration("s", "",
       ObjectLiteral(<<PropertyAssignment("color", 1, 12,
                         OtherExpression("token.colorPrimary", 1))>>,
                     "{ color: token.colorPrimary }", 1)),
     VariableDeclaration("local", "",
       ObjectLiteral(<<PropertyAssignment("token", 2, 16,
                         ObjectLiteral(<<PropertyAssignment("fontSize", 2, 25,
                                           NumericLiteral("14", "14", 2))>>,
                                       "{ fontSize: 14 }", 2))>>,
                     "{ token: { fontSize: 14 } }", 2))>>,
   ast |-> <<
     TokenDestructuring(0),
     PropertyAccess(<<"token", "colorPrimary">>, 1, 19, 37, "none", 0, 0),
     PropertyAccess(<<"local", "token", "fontSize">>, 3, 10, 30, "none", 0, 0),
     PropertyAccess(<<"local", "token">>, 3, 10, 21, "none", 0, 0),
     PropertyAccess(<<"token", "borderRadius">>, 4, 16, 34, "jsx", 15, 35)>>,
   nodes |-> <<
     Node("token", 0, 8), Node("useToken", 0, 18),
     Node("s", 1, 6), Node("color", 1, 12), Node("token", 1, 19), Node("colorPrimary", 1, 25),
     Node("local", 2, 6), Node("token", 2, 16), Node("fontSize", 2, 25), Node("14", 2, 35),
     Node("n", 3, 6), Node("local", 3, 10), Node("token", 3, 16), Node("fontSize", 3, 22),
     Node("w", 4, 6), Node("p", 4, 11), Node("w", 4, 13), Node("token", 4, 16),
     Node("borderRadius", 4, 22)>>]

\* 0: .btn { color: @primary-color; }
LessDoc ==
  [lines |-> <<".btn { color: @primary-color; }">>,
   decls |-> <<>>,
   ast |-> <<>>,
   nodes |-> <<Node("btn", 0, 1), Node("color", 0, 7), Node("primary-color", 0, 15)>>]

\* the documents the client opens in a run
DocUris == {ButtonUri}

DocOf(uri) == IF uri = ButtonUri THEN ButtonDoc ELSE LessDoc

Position(line, character) == [line |-> line, character |-> character]

\* the cursor positions the client asks about
QueryPositions(uri) ==
  IF uri = ButtonUri
  THEN {Position(1, 30)}
  ELSE {Position(0, 16)}

\* doc.getText of the addressed line
LineAt(doc, position) ==
  IF position.line + 1 \in 1..Len(doc.lines) THEN doc.lines[position.line + 1] ELSE ""

\* a variant whose spans end before the column after the match
spanContainsHalfOpen(character, start, end) == character >= start /\ character < end

\* the test of getWordAtPosition on a match: the cursor column lies between
\* the match's first column and the column after its last, both included
spanContains(character, start, end) == character >= start /\ character <= end

\* the loop of getWordAtPosition over the matches of /[\w-]+/g from index i
RECURSIVE WordFrom(_, _, _)
WordFrom(line, i, character) ==
  IF i > Len(line) THEN ""
  ELSE IF Char(line, i) \in WordOrHyphenChars
  THEN LET j == RunEnd(line, i, WordOrHyphenChars)
           start == i - 1
           end == start + (j - i + 1)
       IN IF spanContains(character, start, end) THEN Sub(line, i, j)
          ELSE WordFrom(line, j + 1, character)
  ELSE WordFrom(line, i + 1, character)

getWordAtPosition(doc, position) == WordFrom(LineAt(doc, position), 1, position.character)

NoMatch == [ok |-> FALSE, end |-> 0, property |-> ""]

\* /(\w+\.)*token\.(\w+)/ tried at index p: as many leading "name." groups
\* as still leave a match
RECURSIVE TokenAccessAt(_, _)
TokenAccessAt(line, p) ==
  LET runEnd == RunEnd(line, p, WordChars)
      group == runEnd >= p /\ Char(line, runEnd + 1) = "."
      more == IF group THEN TokenAccessAt(line, runEnd + 2) ELSE NoMatch
      propEnd == RunEnd(line, p + 6, WordChars)
  IN IF more.ok THEN more
     ELSE IF Sub(line, p, p + 5) = "token." /\ propEnd >= p + 6
     THEN [ok |-> TRUE, end |-> propEnd, property |-> Sub(line, p + 6, propEnd)]
     ELSE NoMatch

\* String.prototype.lastIndexOf (0-based, -1 when absent)
LastIndexOf(s, sub) ==
  LET at == { i \in 1..(Len(s) - Len(sub) + 1) : Sub(s, i, i + Len(sub) - 1) = sub }
  IN IF at = {} THEN -1 ELSE (CHOOSE i \in at : \A k \in at : k <= i) - 1

\* the loop of getTokenPropertyAtPosition over the matches from index i; the
\* empty string stands for null
RECURSIVE TokenPropertyFrom(_, _, _)
TokenPropertyFrom(line, i, character) ==
  IF i > Len(line) THEN ""
  ELSE LET match == TokenAccessAt(line, i)
       IN IF ~match.ok THEN TokenPropertyFrom(line, i + 1, character)
          ELSE LET fullMatch == Sub(line, i, match.end)
                   start == i - 1
                   tokenPropertyStart == start + LastIndexOf(fullMatch, match.property)
                   tokenPropertyEnd == tokenPropertyStart + Len(match.property)
               IN IF character >= tokenPropertyStart /\ character <= tokenPropertyEnd
                  THEN match.property
                  ELSE TokenPropertyFrom(line, match.end + 1, character)

getTokenPropertyAtPosition(doc, position) ==
  TokenPropertyFrom(LineAt(doc, position), 1, position.character)

----------------------------------------------------------------------------
(* Local resolution.  Null stands for null and undefined. *)

Null == "null"

RECURSIVE resolveObjectValue(_, _)
resolveObjectValue(obj, chain) ==
  IF Len(chain) = 0
  THEN IF obj.e \in {"StringLiteral", "NumericLiteral"} THEN obj.text
       ELSE IF obj.e = "ObjectLiteralExpression" THEN "[object]"
       ELSE Null
  ELSE IF obj.e # "ObjectLiteralExpression" THEN Null
  ELSE LET found == SelectSeq(obj.props, LAMBDA p : p.key = Head(chain))
       IN IF Len(found) = 0 THEN Null
          ELSE resolveObjectValue(found[1].init, Tail(chain))

\* the value the last matching declaration of the root leaves
resolveChainValue(decls, chain) ==
  LET matching ==
        SelectSeq(decls, LAMBDA d : /\ d.node = "VariableDeclaration"
                                    /\ Len(chain) > 0
                                    /\ d.name = Head(chain)
                                    /\ d.init.e = "ObjectLiteralExpression")
  IN IF Len(matching) = 0 THEN Null
     ELSE resolveObjectValue(matching[Len(matching)].init, Tail(chain))

\* findTokenUsages: one entry per token.<propertyName> access in the file
findTokenUsages(doc, tokenVarName, propertyName) ==
  LET usages == SelectSeq(doc.ast, LAMBDA n : /\ n.node = "PropertyAccessExpression"
                                              /\ n.chain = <<tokenVarName, propertyName>>)
  IN [i \in 1..Len(usages) |-> tokenVarName \o "." \o propertyName]

\* the list resolveFullTokenValueAtPosition collects; empty stands for null
resolveFullTokenValueAtPosition(word, doc, position) ==
  LET Covers(line, start, end) ==
        position.line = line /\ position.character >= start /\ position.character <= end
      Resolved(n) ==
        LET v == resolveChainValue(doc.decls, n.chain)
        IN IF v # Null /\ v # "" THEN <<v>> ELSE <<>>
      OfNode(n) ==
        IF n.node = "TokenDestructuring" THEN findTokenUsages(doc, "token", word)
        ELSE IF n.chain[Len(n.chain)] # word THEN <<>>
        ELSE (IF n.wrap # "none" /\ Covers(n.line, n.wrapStart, n.wrapEnd)
              THEN Resolved(n) ELSE <<>>)
          \o (IF Covers(n.line, n.start, n.end) THEN Resolved(n) ELSE <<>>)
  IN Flat([i \in 1..Len(doc.ast) |-> OfNode(doc.ast[i])])

\* what a lookup that finds nothing returns
Undefined == [kind |-> "undefined"]

\* findExactTokenDefinitionAtPosition
findExactTokenDefinitionAtPosition(doc, position, tokenName, tokenDefs) ==
  LET foundNode ==
        \E i \in 1..Len(doc.nodes) :
          /\ doc.nodes[i].line = position.line
          /\ doc.nodes[i].character <= position.character
          /\ doc.nodes[i].text = tokenName
      scripts == SelectSeq(tokenDefs, LAMBDA d : IsScriptPath(d.uri))
  IN IF ~foundNode THEN Undefined
     ELSE IF Len(scripts) > 0 THEN scripts[1]
     ELSE tokenDefs[1]

----------------------------------------------------------------------------
(* Hover and definition answers *)

createHoverFromResolvedValues(word, values) ==
  [kind |-> "local", word |-> word, values |-> values]

isCommonAntdToken(word) ==
  word \in { "colorPrimary", "colorSuccess", "colorWarning", "colorError", "colorInfo",
             "colorTextBase", "colorBgBase", "colorText", "colorTextSecondary",
             "borderRadius", "borderRadiusLG", "borderRadiusSM", "borderRadiusXS",
             "fontSize", "fontSizeLG", "fontSizeSM", "fontSizeXL" }

\* the names getTokenUsageInfo has a description for
hasTokenUsageInfo(word) ==
  word \in { "colorPrimary", "colorSuccess", "colorWarning", "colorError", "colorInfo",
             "borderRadius", "borderRadiusLG", "borderRadiusSM",
             "fontSize", "fontSizeLG", "fontSizeSM" }

\* the hover built from index definitions: the definitions sorted by their
\* closeness to the request, grouped by source in order of first appearance
createHoverFromTokenDefs(word, tokenDefs, currentUri, position) ==
  LET Score(d) == (IF d.uri = currentUri THEN 1 ELSE 0)
                    + (IF d.position.line = position.line THEN 1 ELSE 0)
      sortedDefs == SelectSeq(tokenDefs, LAMBDA d : Score(d) = 2)
                      \o SelectSeq(tokenDefs, LAMBDA d : Score(d) = 1)
                      \o SelectSeq(tokenDefs, LAMBDA d : Score(d) = 0)
      First(i) == \A k \in 1..(i - 1) : sortedDefs[k].source # sortedDefs[i].source
      firsts == SelectSeq([i \in 1..Len(sortedDefs) |-> i], First)
  IN [kind |-> "index", word |-> word,
      groups |-> [g \in 1..Len(firsts) |->
                    [source |-> sortedDefs[firsts[g]].source,
                     defs |-> SelectSeq(sortedDefs,
                                LAMBDA d : d.source = sortedDefs[firsts[g]].source)]],
      usage |-> isCommonAntdToken(word) /\ hasTokenUsageInfo(word)]

IndexGet(index, name) == IF name \in DOMAIN index THEN index[name] ELSE <<>>

\* what the handlers read off the document alone, for every request
Located ==
  [uri \in DocUris |->
     [position \in QueryPositions(uri) |->
        LET doc == DocOf(uri)
            word == getWordAtPosition(doc, position)
        IN [word |-> word,
            tokenProperty |-> getTokenPropertyAtPosition(doc, position),
            resolvedValues |-> resolveFullTokenValueAtPosition(word, doc, position)]]]

\* onHover on an initialized server with the document open
HoverAnswer(index, uri, position) ==
  LET doc == DocOf(uri)
      word == Located[uri][position].word
      resolvedValues == Located[uri][position].resolvedValues
      tokenProperty == Located[uri][position].tokenProperty
      propertyDefs == IndexGet(index, tokenProperty)
      propertyMatch ==
        IF tokenProperty # "" /\ Len(propertyDefs) > 0
        THEN findExactTokenDefinitionAtPosition(doc, position, word, propertyDefs)
        ELSE Undefined
      tokenDefs == IndexGet(index, word)
      exactMatch ==
        IF Len(tokenDefs) > 0
        THEN findExactTokenDefinitionAtPosition(doc, position, word, tokenDefs)
        ELSE Undefined
  IN IF Len(resolvedValues) > 0 THEN createHoverFromResolvedValues(word, resolvedValues)
     ELSE IF propertyMatch # Undefined
     THEN createHoverFromTokenDefs(word, <<propertyMatch>>, uri, position)
     ELSE IF exactMatch # Undefined
     THEN createHoverFromTokenDefs(word, <<exactMatch>>, uri, position)
     ELSE Undefined

\* a variant that measures the end from the start of the line
DefinitionEndFromLineStart(token, searchTerm) ==
  [line |-> token.position.line, character |-> Len(searchTerm)]

\* the end of the range of a location: the name's length past the start
DefinitionEnd(token, searchTerm) ==
  [line |-> token.position.line, character |-> token.position.character + Len(searchTerm)]

\* a variant that returns the location of the first definition only
DefinitionAnswerFirstOnly(index, uri, position) ==
  LET word == Located[uri][position].word
      tokenProperty == Located[uri][position].tokenProperty
      searchTerm == IF tokenProperty # "" THEN tokenProperty ELSE word
      tokenDefs == IndexGet(index, searchTerm)
  IN [t \in 1..(IF Len(tokenDefs) > 0 THEN 1 ELSE 0) |->
        [uri |-> tokenDefs[t].uri,
         range |-> [start |-> tokenDefs[t].position,
                    end |-> DefinitionEnd(tokenDefs[t], searchTerm)]]]

\* onDefinition on an initialized server with the document open
DefinitionAnswer(index, uri, position) ==
  LET word == Located[uri][position].word
      tokenProperty == Located[uri][position].tokenProperty
      searchTerm == IF tokenProperty # "" THEN tokenProperty ELSE word
      tokenDefs == IndexGet(index, searchTerm)
  IN [t \in 1..Len(tokenDefs) |->
        [uri |-> tokenDefs[t].uri,
         range |-> [start |-> tokenDefs[t].position,
                    end |-> DefinitionEnd(tokenDefs[t], searchTerm)]]]

----------------------------------------------------------------------------
(* The server *)

NoRequest == [kind |-> "none"]

Responding == lastHover # NoRequest \/ lastDefinition # NoRequest

\* no function is applied on its own while the server runs
NoCall == [fn |-> "none"]

\* the server after construction, in one of the workspaces
ServerInit ==
  /\ \E w \in Workspaces : fs = w.fs /\ unreadable = w.unreadable
  /\ fsChanges = 0
  /\ lifecycle = "created"
  /\ rootPath = ""
  /\ isInitialized = FALSE
  /\ tokenIndex = EmptyIndex
  /\ scans = <<>>
  /\ openDocs = {}
  /\ lastHover = NoRequest
  /\ lastDefinition = NoRequest
  /\ notifications = 0
  /\ baseline = NoBaseline

Init == ServerInit /\ call = NoCall

\* the initialize request: the root path is stored, nothing is scanned
OnInitialize(root) ==
  /\ lifecycle = "created"
  /\ rootPath' = root
  /\ lifecycle' = "initializing"
  /\ UNCHANGED <<call, fs, unreadable, fsChanges, isInitialized, tokenIndex, scans,
                 openDocs, lastHover, lastDefinition, notifications, baseline>>

\* the initialized notification: the first scan starts
OnInitialized ==
  /\ lifecycle = "initializing"
  /\ lifecycle' = "running"
  /\ IF rootPath # ""
     THEN CanStartScan /\ scans' = StartScan("onInitialized")
     ELSE UNCHANGED scans
  /\ UNCHANGED <<call, fs, unreadable, fsChanges, rootPath, isInitialized, tokenIndex,
                 openDocs, lastHover, lastDefinition, notifications, baseline>>

\* a document is opened; a scan starts when none has completed yet
OnDocumentOpen(uri) ==
  /\ lifecycle = "running"
  /\ uri \notin openDocs
  /\ openDocs' = openDocs \cup {uri}
  /\ IF ~isInitialized /\ rootPath # ""
     THEN CanStartScan /\ scans' = StartScan("onDocumentOpen")
     ELSE UNCHANGED scans
  /\ UNCHANGED <<call, fs, unreadable, fsChanges, lifecycle, rootPath, isInitialized,
                 tokenIndex, lastHover, lastDefinition, notifications, baseline>>

\* a variant that re-indexes before the server is initialized as well
reindexesOnChangeAlways(initialized, root) == root # ""

\* whether handleFileChange goes on to re-index: not before the server is
\* initialized, and only with a root path
reindexesOnChange(initialized, root) == initialized /\ root # ""

\* a didChangeWatchedFiles notification is delivered
handleFileChange ==
  /\ lifecycle = "running"
  /\ notifications > 0
  /\ notifications' = notifications - 1
  /\ IF reindexesOnChange(isInitialized, rootPath)
     THEN CanStartScan /\ scans' = StartScan("handleFileChange")
     ELSE UNCHANGED scans
  /\ UNCHANGED <<call, fs, unreadable, fsChanges, lifecycle, rootPath, isInitialized,
                 tokenIndex, openDocs, lastHover, lastDefinition, baseline>>

\* a variant that answers before the server is initialized
HoverReadyUnguarded(uri) == uri \in openDocs

\* whether onHover goes on to answer from the document and the index
HoverReady(uri) == uri \in openDocs /\ isInitialized

\* a variant whose emergency scan does not depend on the initialized flag
hoverStartsScanAlways(uri) == uri \in openDocs /\ rootPath # ""

\* whether onHover starts the emergency scan: the document is open, the
\* server is not initialized and has a root
hoverStartsScan(uri) == uri \in openDocs /\ ~isInitialized /\ rootPath # ""

onHover(uri, position) ==
  /\ lifecycle = "running"
  /\ uri \in openDocs          \* the client asks about documents it has open
  /\ lastHover' =
       [kind |-> "hover", uri |-> uri, position |-> position,
        answer |-> IF HoverReady(uri) THEN HoverAnswer(tokenIndex, uri, position)
                   ELSE Undefined]
  /\ IF hoverStartsScan(uri)
     THEN CanStartScan /\ scans' = StartScan("onHover")
     ELSE UNCHANGED scans
  /\ UNCHANGED <<call, fs, unreadable, fsChanges, lifecycle, rootPath, isInitialized,
                 tokenIndex, openDocs, lastDefinition, notifications, baseline>>

\* a variant that answers before the server is initialized
DefinitionReadyUnguarded(uri) == uri \in openDocs

\* whether onDefinition goes on to answer from the document and the index
DefinitionReady(uri) == uri \in openDocs /\ isInitialized

onDefinition(uri, position) ==
  /\ lifecycle = "running"
  /\ lastDefinition' =
       [kind |-> "definition", uri |-> uri, position |-> position,
        answer |-> IF DefinitionReady(uri) THEN DefinitionAnswer(tokenIndex, uri, position)
                   ELSE <<>>]
  /\ UNCHANGED <<call, fs, unreadable, fsChanges, lifecycle, rootPath, isInitialized,
                 tokenIndex, scans, openDocs, lastHover, notifications, baseline>>

\* a handler returns its answer in the turn of the request: the answer goes
\* out before anything else happens
Respond ==
  /\ Responding
  /\ lastHover' = NoRequest
  /\ lastDefinition' = NoRequest
  /\ UNCHANGED <<call, fs, unreadable, fsChanges, lifecycle, rootPath, isInitialized,
                 tokenIndex, scans, openDocs, notifications, baseline>>

Next ==
  \/ Respond
  \/ ~Responding /\ \E root \in {Root, ""} : OnInitialize(root)
  \/ ~Responding /\ OnInitialized
  \/ ~Responding /\ \E uri \in DocUris : OnDocumentOpen(uri)
  \/ ~Responding /\ handleFileChange
  \/ ~Responding /\ \E uri \in DocUris : \E position \in QueryPositions(uri) : onHover(uri, position)
  \/ ~Responding /\ \E uri \in DocUris : \E position \in QueryPositions(uri) : onDefinition(uri, position)
  \/ ~Responding /\ \E s \in 1..Len(scans) : FinishEnumeration(s)
  \/ ~Responding /\ \E s \in 1..Len(scans) : \E path \in Paths : RunFileTask(s, path)
  \/ ~Responding /\ \E path \in Paths : FsDelete(path)
  \/ ~Responding /\ \E path \in Paths : FsWrite(path)
  \/ ~Responding /\ FsTouch

Spec == Init /\ [][Next]_vars

\* a step of a scan in flight: the callback of a completed readdir or readFile
ScanProgress ==
  \E s \in 1..Len(scans) :
    FinishEnumeration(s) \/ \E path \in Paths : RunFileTask(s, path)

\* the event loop runs the callback of every file-system operation that has
\* completed, so a scan in flight is not left waiting for ever; what the
\* client sends, and when, is not constrained
LiveSpec == Init /\ [][Next]_vars /\ WF_vars(ScanProgress)

----------------------------------------------------------------------------
(* Vocabulary of the properties *)

Range(seq) == { seq[i] : i \in 1..Len(seq) }

IsPrefix(a, b) == Len(a) <= Len(b) /\ \A i \in 1..Len(a) : a[i] = b[i]

\* the definitions of a list as a multiset
BagOfSeq(seq) == [x \in Range(seq) |-> Cardinality({ i \in 1..Len(seq) : seq[i] = x })]

\* the same names, and for each name the same definitions up to order
IndexEquiv(a, b) ==
  /\ DOMAIN a = DOMAIN b
  /\ \A n \in DOMAIN a : BagOfSeq(a[n]) = BagOfSeq(b[n])

\* the definitions the extractors draw from a file as it is on disk
DefinitionsOf(disk, path) == Extracted(Root, path, disk[path])

\* the index one pass over the files leaves, starting from the empty index
RECURSIVE IndexOfFiles(_, _, _)
IndexOfFiles(disk, files, index) ==
  IF files = <<>> THEN index
  ELSE IndexOfFiles(disk, Tail(files), AddAll(index, DefinitionsOf(disk, Head(files))))

\* the index holds the definition data under the name
Holds(index, name, data) == name \in DOMAIN index /\ data \in Range(index[name])

\* every definition of every name of the index
AllDefinitions(index) == UNION { Range(index[n]) : n \in DOMAIN index }

\* this step settles scan s as fulfilled
Completes(s) == scans[s].outcome = "pending" /\ scans'[s].outcome = "fulfilled"

\* this step settles scan s as fulfilled, and s overlapped no other scan and
\* saw no change of the workspace
CompletesUndisturbed(s) == Completes(s) /\ Undisturbed(scans'[s])

----------------------------------------------------------------------------
\* C1: when a script file defines a token name through a ConfigProvider theme
\* and a JSON file defines the same name, then after a scan that overlapped
\* no other scan the name's list holds both definitions, each with the source
\* tag and the file it came from; and a step that adds definitions keeps the
\* definitions a name already has, in place.
C1_MultiProvenanceRetention ==
  [][ /\ \A s \in 1..Len(scans) :
           CompletesUndisturbed(s) =>
             \A f1 \in Range(scans'[s].files), f2 \in Range(scans'[s].files) :
               \A a \in Range(DefinitionsOf(fs', f1)), b \in Range(DefinitionsOf(fs', f2)) :
                 ( /\ IsScriptPath(PathJoin(Root, f1)) /\ IsJsonPath(PathJoin(Root, f2))
                   /\ a[1] = b[1]
                   /\ a[2].source = "configProvider" /\ b[2].source = "json" ) =>
                 /\ a[2].uri = PathJoin(Root, f1) /\ b[2].uri = PathJoin(Root, f2)
                 /\ a[1] \in DOMAIN tokenIndex'
                 /\ \E i \in 1..Len(tokenIndex'[a[1]]) : \E j \in 1..Len(tokenIndex'[a[1]]) :
                      i # j /\ tokenIndex'[a[1]][i] = a[2] /\ tokenIndex'[a[1]][j] = b[2]
      /\ tokenIndex' # EmptyIndex =>
           \A n \in DOMAIN tokenIndex :
             n \in DOMAIN tokenIndex' /\ IsPrefix(tokenIndex[n], tokenIndex'[n])
    ]_vars

\* a scan that overlapped no other has completed and colorPrimary has its
\* ConfigProvider definition from App.tsx and its JSON definition from theme.json
C1_Witness ==
  /\ \E s \in 1..Len(scans) : scans[s].outcome = "fulfilled" /\ Undisturbed(scans[s])
  /\ "colorPrimary" \in DOMAIN tokenIndex
  /\ \E d \in Range(tokenIndex["colorPrimary"]) :
       d.source = "configProvider" /\ d.uri = PathJoin(Root, AppTsx)
  /\ \E d \in Range(tokenIndex["colorPrimary"]) :
       d.source = "json" /\ d.uri = PathJoin(Root, ThemeJson)

----------------------------------------------------------------------------
\* no scan of the workspace has completed yet
NoScanCompleted == \A s \in 1..Len(scans) : scans[s].outcome # "fulfilled"

----------------------------------------------------------------------------
\* every scan started so far has completed, and the workspace never changed
AllScansCompleted ==
  /\ Len(scans) > 0
  /\ \A s \in 1..Len(scans) : scans[s].outcome = "fulfilled" /\ scans[s].phase = "finished"

\* C3: scans that overlap do not interleave their effects on the index: once
\* every scan has completed over an unchanged workspace, the index is what one
\* scan alone leaves, each definition of each file once.
C3_OverlappingScansGuarded ==
  (AllScansCompleted /\ fsChanges = 0) =>
    IndexEquiv(tokenIndex, IndexOfFiles(fs, findAllFiles(fs, unreadable, <<>>).files, EmptyIndex))

----------------------------------------------------------------------------
\* C4: a scan that overlaps no other, of a workspace that is as it was when an
\* earlier such scan completed, leaves an index where every name has the same
\* definitions as after the earlier scan, up to their order in the list.
C4_DeterminismUpToOrder ==
  [][ \A s \in 1..Len(scans) :
        (CompletesUndisturbed(s) /\ baseline.valid) => IndexEquiv(tokenIndex', baseline.index)
    ]_vars

\* two scans, neither overlapping the other, have completed over the same
\* workspace and left the definitions of some name in different orders
C4_Witness ==
  /\ baseline.valid
  /\ Len(scans) = 2
  /\ \A s \in 1..2 : scans[s].outcome = "fulfilled" /\ Undisturbed(scans[s])
  /\ ~AnyInProgress
  /\ tokenIndex # baseline.index
  /\ tokenIndex # EmptyIndex

----------------------------------------------------------------------------
\* a directory on the way to the path is in the ignore set
PathIgnored(path) == \E n \in 1..(Len(path) - 1) : path[n] \in ignoredDirs

\* the URIs of the files below a directory of the ignore set
IgnoredUris == { PathJoin(Root, p) : p \in { q \in Paths : PathIgnored(q) } }

\* the file of the URI lies below a directory of the ignore set
UnderIgnoredDir(uri) == uri \in IgnoredUris

\* the files a scan has to visit: supported, present, below no ignored directory
Indexable(disk) == { p \in SupportedPaths : Exists(disk, p) /\ ~PathIgnored(p) }

\* C5: no definition of the index comes from a file below a directory of the
\* ignore set, at whatever depth; the files outside such directories are
\* still enumerated and indexed.
C5_IgnoreSetEnforcement ==
  /\ \A d \in AllDefinitions(tokenIndex) : ~UnderIgnoredDir(d.uri)
  /\ \A s \in 1..Len(scans) :
       (scans[s].phase = "extracting" /\ scans[s].fsStable) =>
         Range(scans[s].files) = Indexable(fs)
  /\ baseline.valid =>
       \A p \in Indexable(fs) : \A a \in Range(DefinitionsOf(fs, p)) :
         Holds(baseline.index, a[1], a[2])

\* a scan of a workspace with node_modules/ignored.tsx and src/dist/deep.json
\* has completed: colorPrimary of App.tsx is indexed, colorIgnored is not
C5_Witness ==
  /\ Exists(fs, IgnoredTsx) /\ Exists(fs, DeepJson) /\ Exists(fs, AppTsx)
  /\ baseline.valid
  /\ tokenIndex = baseline.index
  /\ \E d \in Range(IndexGet(tokenIndex, "colorPrimary")) : d.uri = PathJoin(Root, AppTsx)
  /\ "colorIgnored" \notin DOMAIN tokenIndex
  /\ "colorSuccess" \notin DOMAIN tokenIndex

----------------------------------------------------------------------------
\* the name a definition request looks up: the property of the token access
\* under the cursor, else the word under the cursor
SearchTermOf(request) ==
  LET at == Located[request.uri][request.position]
  IN IF at.tokenProperty # "" THEN at.tokenProperty ELSE at.word

\* C6: every location a definition request returns for a name of N characters
\* starts at the stored position of the definition it was built from and ends
\* on the same line, N columns after the start.
C6_DefinitionSpanLaw ==
  lastDefinition # NoRequest =>
    LET term == SearchTermOf(lastDefinition)
        defs == IndexGet(tokenIndex, term)
        answer == lastDefinition.answer
    IN /\ Len(answer) <= Len(defs)
       /\ \A i \in 1..Len(answer) :
            /\ answer[i].uri = defs[i].uri
            /\ answer[i].range.start = defs[i].position
            /\ answer[i].range.end.line = answer[i].range.start.line
            /\ answer[i].range.end.character = answer[i].range.start.character + Len(term)

\* a definition request is being answered with several locations, one of them
\* starting past the first column
C6_Witness ==
  /\ lastDefinition # NoRequest
  /\ Len(lastDefinition.answer) > 1
  /\ \E i \in 1..Len(lastDefinition.answer) :
       lastDefinition.answer[i].range.start.character > 0

----------------------------------------------------------------------------
\* the workspace holds a JSON file that does not parse and a script that
\* does not parse, next to a file that does
HasUnparsableFiles ==
  /\ Exists(fs, BadJson) /\ ~JsonParses(TextOf(BadJson, fs[BadJson]))
  /\ Exists(fs, BrokenTsx)
  /\ Exists(fs, StylesLess)

\* C7: in a workspace with an unparsable JSON file and an unparsable script
\* next to valid files, no scan fails, the index never holds a definition
\* from the JSON file that did not parse, and after a scan that overlapped no
\* other the index holds every definition of every other file.
C7_UnparsableFilesTolerated ==
  HasUnparsableFiles =>
    /\ \A s \in 1..Len(scans) : scans[s].outcome # "rejected"
    /\ \A d \in AllDefinitions(tokenIndex) : d.uri # PathJoin(Root, BadJson)
    /\ baseline.valid =>
         \A p \in Indexable(fs) \ {BadJson} : \A a \in Range(DefinitionsOf(fs, p)) :
           Holds(baseline.index, a[1], a[2])

\* a scan of that workspace has completed and the index holds the
\* definitions of styles.less
C7_Witness ==
  /\ HasUnparsableFiles
  /\ baseline.valid
  /\ tokenIndex = baseline.index
  /\ \E s \in 1..Len(scans) :
       /\ scans[s].outcome = "fulfilled"
       /\ {BadJson, BrokenTsx} \subseteq Range(scans[s].files)
  /\ \E d \in Range(IndexGet(tokenIndex, "primary-color")) : d.uri = PathJoin(Root, StylesLess)

----------------------------------------------------------------------------
\* C8: a directory that cannot be read does not fail the scan: the scan goes
\* on past it and the files of the readable directories next to it are
\* enumerated and indexed.
C8_UnreadableDirectorySkipped ==
  unreadable # {} =>
    \A s \in 1..Len(scans) :
      scans[s].phase # "enumerating" =>
        /\ scans[s].outcome # "rejected"
        /\ ValidTsx \in Range(scans[s].files)

----------------------------------------------------------------------------
\* this step delivers a file notification to handleFileChange
Delivered == notifications' = notifications - 1

\* this step starts a scan from handleFileChange
StartsRescan ==
  /\ Len(scans') = Len(scans) + 1
  /\ scans'[Len(scans')].origin = "handleFileChange"
  /\ scans'[Len(scans')].phase = "enumerating"

----------------------------------------------------------------------------
\* C10: when a scan that overlapped no other completes, the index holds
\* exactly the definitions extracted from the files that scan enumerated, and
\* nothing an earlier scan recorded; the scan clears the index on leaving its
\* enumeration, before any of its files is extracted.
C10_ClearAndRebuild ==
  [][ /\ \A s \in 1..Len(scans) :
           CompletesUndisturbed(s) =>
             IndexEquiv(tokenIndex', IndexOfFiles(fs', scans'[s].files, EmptyIndex))
      /\ \A s \in 1..Len(scans) :
           (scans[s].phase = "enumerating" /\ scans'[s].phase = "extracting") =>
             /\ tokenIndex' = EmptyIndex
             /\ scans'[s].pending = Range(scans'[s].files)
    ]_vars

\* App.tsx was indexed, then deleted or edited, and a re-scan that overlapped
\* no other has completed: the index holds definitions, none of them one of
\* the first App.tsx
C10_Witness ==
  /\ fs[AppTsx] \in {Deleted, EditedVersion}
  /\ ~AnyInProgress
  /\ Len(scans) = 2
  /\ \A s \in 1..2 : scans[s].outcome = "fulfilled" /\ Undisturbed(scans[s])
  /\ tokenIndex # EmptyIndex
  /\ \A a \in Range(ExtractTable[AppTsx][FirstVersion]) : ~Holds(tokenIndex, a[1], a[2])

----------------------------------------------------------------------------
\* C11: while no workspace root has been supplied, whatever initialized,
\* document-open, file-change, hover and definition events arrive, no scan is
\* ever started, the server is not initialized and the index stays empty;
\* every hover is answered with no result and every definition request with
\* the empty list.
C11_NoRootNeverReady ==
  rootPath = "" =>
    /\ scans = <<>>
    /\ ~isInitialized
    /\ tokenIndex = EmptyIndex
    /\ lastHover # NoRequest => lastHover.answer = Undefined
    /\ lastDefinition # NoRequest => lastDefinition.answer = <<>>

\* the server runs without a root, a document is open, a file change has been
\* delivered, and a hover on the open document is being answered
C11_Witness ==
  /\ lifecycle = "running"
  /\ rootPath = ""
  /\ fsChanges > 0 /\ notifications = 0
  /\ lastHover # NoRequest
  /\ lastHover.uri \in openDocs
  /\ lastHover.answer = Undefined

----------------------------------------------------------------------------
\* every property assignment of a script, wherever it stands
AssignmentsOf(content) ==
  LET OfDecl(d) ==
        IF d.node = "VariableDeclaration" THEN PropertyAssignmentsIn(d.init)
        ELSE Flat([a \in 1..Len(d.attrs) |-> PropertyAssignmentsIn(d.attrs[a].expr)])
  IN Range(Flat([i \in 1..Len(content.decls) |-> OfDecl(content.decls[i])]))

\* the texts a file at the URI has held
ContentsAt(uri) ==
  { TextOf(p, v) : p \in { q \in Paths : PathJoin(Root, q) = uri },
                   v \in {FirstVersion, EditedVersion} }

\* the value that keeps faith with an initializer: the exact source text of
\* a literal or of any other expression, the name of a bare identifier
FaithfulValue(init) == IF init.e = "Identifier" THEN init.text ELSE init.raw

\* C12: every definition drawn from a script, whichever detector produced
\* it, has as value the exact source text of the initializer it was read from
\* (quotes included for a string literal), or the name for a bare identifier.
C12_LiteralFidelity ==
  \A n \in DOMAIN tokenIndex : \A d \in Range(tokenIndex[n]) :
    d.source \in {"configProvider", "themeConfig"} =>
      \E content \in ContentsAt(d.uri) : \E p \in AssignmentsOf(content) :
        p.key = n /\ d.value = FaithfulValue(p.init)

----------------------------------------------------------------------------
\* C13: borderRadius: 8 stands once in the workspace, in the token object of
\* the inline theme of the ConfigProvider element of App.tsx; after a scan
\* that overlapped no other its name has exactly one definition, with source
\* configProvider and value 8.
C13_ConfigProviderSingleDefinition ==
  (baseline.valid /\ fs[AppTsx] = FirstVersion) =>
    LET defs == IndexGet(baseline.index, "borderRadius")
    IN /\ Len(defs) = 1
       /\ defs[1].source = "configProvider"
       /\ defs[1].value = "8"

----------------------------------------------------------------------------
\* the source tags of hook usages
HookSources == {"useToken", "getToken"}

----------------------------------------------------------------------------
\* the names a script reads as token.<name>, as a property value or inside
\* a template-literal span
TokenReadsOf(content) ==
  LET OfDecl(d) ==
        IF d.node = "VariableDeclaration" THEN PropertyAccessesIn(d.init)
        ELSE Flat([a \in 1..Len(d.attrs) |-> PropertyAccessesIn(d.attrs[a].expr)])
      all == Flat([i \in 1..Len(content.decls) |-> OfDecl(content.decls[i])])
  IN { n.chain[Len(n.chain)] : n \in { m \in Range(all) : m.chain[1] = "token" } }

\* C15: after a scan of a script that destructures token from useToken() and
\* reads token.<name>, as a property value or inside a template-literal
\* span, the index has an entry under every such name (colorPrimary,
\* borderRadius, fontSize, marginSM, marginLG) and at least one definition
\* under such a name has source useToken.
C15_HookReadsIndexed ==
  (baseline.valid /\ fs[ComponentTsx] = FirstVersion) =>
    LET reads == TokenReadsOf(ComponentTsxText)
    IN /\ reads = {"colorPrimary", "borderRadius", "fontSize", "marginSM", "marginLG"}
       /\ reads \subseteq DOMAIN baseline.index
       /\ \E n \in reads : \E d \in Range(IndexGet(baseline.index, n)) :
            d.source = "useToken"

----------------------------------------------------------------------------
(* The query functions applied on their own.  call holds the arguments of  *)
(* one application, and after the step that applies the function also its  *)
(* result; the server stands still.                                        *)

\* the longest list of definitions handed to the tie-break
MaxDefs == 3

\* definitions of one name as the scan of a workspace with Button.tsx,
\* App.tsx, theme.json and styles.less records them
DefPool ==
  { TokenData("/ws/src/Button.tsx", "14", 2, 0, "themeConfig", NoContext),
    TokenData("/ws/App.tsx", "#1890ff", 3, 30, "configProvider", "theme-object"),
    TokenData("/ws/theme.json", JsonStringify(Str("#1890ff")), 0, 0, "json", "theme.token.x"),
    TokenData("/ws/styles.less", "#1890ff", 0, 0, "less", NoContext) }

\* the lists of distinct definitions an index entry can hold
DefLists ==
  { l \in UNION { [1..n -> DefPool] : n \in 1..MaxDefs } :
      \A i, j \in 1..Len(l) : i # j => l[i] # l[j] }

\* the cursor positions of the applications: on colorPrimary, on a keyword,
\* on borderRadius inside the JSX expression
FnPositions == {Position(1, 30), Position(0, 2), Position(4, 25)}

FindExactInputs ==
  { [fn |-> "findExactTokenDefinitionAtPosition", stage |-> "input", uri |-> ButtonUri,
     position |-> p, tokenDefs |-> l, result |-> Undefined] :
      p \in FnPositions, l \in DefLists }

\* the lookup of onHover in the index list of the hovered word
ApplyFindExact ==
  /\ call.fn = "findExactTokenDefinitionAtPosition"
  /\ call.stage = "input"
  /\ call' = [call EXCEPT
       !.stage = "done",
       !.result = findExactTokenDefinitionAtPosition(
                    DocOf(call.uri), call.position,
                    getWordAtPosition(DocOf(call.uri), call.position), call.tokenDefs)]
  /\ UNCHANGED serverVars

\* the last cursor column getWordAtPosition is applied at
MaxColumn == 45

\* the lines getWordAtPosition is applied to
FnLines ==
  { "const style = { color: token.colorPrimary };",
    ".btn { color: @primary-color; }" }

GetWordInputs ==
  { [fn |-> "getWordAtPosition", stage |-> "input", line |-> l, character |-> c,
     result |-> ""] : l \in FnLines, c \in 0..MaxColumn }

ApplyGetWord ==
  /\ call.fn = "getWordAtPosition"
  /\ call.stage = "input"
  /\ call' = [call EXCEPT
       !.stage = "done",
       !.result = getWordAtPosition([lines |-> <<call.line>>],
                                    Position(0, call.character))]
  /\ UNCHANGED serverVars

\* the longest access chain local resolution is applied to
MaxChain == 3

\* the names the access chains are built from: the variables and keys of
\* Button.tsx and one name it does not hold
ChainNames == {"local", "s", "token", "fontSize", "color", "missing"}

ResolveChainInputs ==
  { [fn |-> "resolveChainValue", stage |-> "input", chain |-> c, result |-> Null] :
      c \in UNION { [1..n -> ChainNames] : n \in 2..MaxChain } }

\* the static evaluation of an access chain against the declarations of
\* Button.tsx
ApplyResolveChain ==
  /\ call.fn = "resolveChainValue"
  /\ call.stage = "input"
  /\ call' = [call EXCEPT !.stage = "done",
                          !.result = resolveChainValue(ButtonDoc.decls, call.chain)]
  /\ UNCHANGED serverVars

\* the keys the two predicate-guarded extractors are applied to
FnKeys ==
  { "colorPrimary", "lineHeight", "motionDurationMid", "colorFoo", "color", "color1",
    "color_x", "fontWeight", "size", "sizeUnit", "borderX", "controlOutline",
    "spacingUnit", "motion2", "myPrimaryThing", "INFO", "Error", "informal",
    "cornerRadius", "maxWidth", "padding", "marginSM", "backgroundColor", "zIndex" }

TokenKeyInputs ==
  { [fn |-> "isTokenKey", stage |-> "input", key |-> k,
     result |-> [morph |-> FALSE, json |-> FALSE]] : k \in FnKeys }

\* const x = { <key>: 1 } goes through the ts-morph pass and {"<key>": "v"}
\* through the JSON extractor; the result tells which of them recorded the key
ApplyTokenKey ==
  /\ call.fn = "isTokenKey"
  /\ call.stage = "input"
  /\ LET script == <<VariableDeclaration("x", "",
                       ObjectLiteral(<<PropertyAssignment(call.key, 0, 12,
                                         NumericLiteral("1", "1", 0))>>, "{ ... }", 0))>>
         json == JsonFile(<<LBrace, Key(call.key), Str("v"), RBrace>>)
         Records(adds) == \E i \in 1..Len(adds) : adds[i][1] = call.key
     IN call' = [call EXCEPT
          !.stage = "done",
          !.result = [morph |-> Records(extractWithTsMorph(script, "/ws/x.ts")),
                      json |-> Records(extractFromJson("/ws/x.json", json))]]
  /\ UNCHANGED serverVars

\* the most lines a style file handed to the style extractor has
MaxStyleLines == 2

\* the lines the style files are made of
StyleLinePool ==
  { "@primary-color: #1890ff;",
    ".btn { color: @primary-color; }",
    "@gap: 4px; .x { margin: @gap @gap; }",
    "@primary-color-dark: darken(@primary-color, 10%);",
    "a@b.c { @@v: @ 1; }",
    ".plain { color: red; }" }

CssLikeInputs ==
  { [fn |-> "extractFromCssLike", stage |-> "input", lines |-> ls, result |-> <<>>] :
      ls \in UNION { [1..n -> StyleLinePool] : n \in 1..MaxStyleLines } }

ApplyCssLike ==
  /\ call.fn = "extractFromCssLike"
  /\ call.stage = "input"
  /\ call' = [call EXCEPT
       !.stage = "done",
       !.result = extractFromCssLike("/ws/styles.less", StyleFile(call.lines))]
  /\ UNCHANGED serverVars

FnInit ==
  ServerInit /\ call \in FindExactInputs \cup GetWordInputs \cup ResolveChainInputs
                          \cup TokenKeyInputs \cup CssLikeInputs

FnNext ==
  \/ ApplyFindExact
  \/ ApplyGetWord
  \/ ApplyResolveChain
  \/ ApplyTokenKey
  \/ ApplyCssLike

FnSpec == FnInit /\ [][FnNext]_vars

\* the file a document URI names
SameFile(defUri, docUri) == docUri = "file://" \o defUri

\* the format a source kind originates from, and the format of a file
FormatOfSource(source) ==
  IF source \in {"themeConfig", "configProvider", "useToken", "getToken"} THEN "script"
  ELSE IF source = "json" THEN "json"
  ELSE "style"

FormatOfUri(uri) ==
  IF IsScriptPath(uri) THEN "script" ELSE IF IsJsonPath(uri) THEN "json" ELSE "style"

\* the tie-break: same file, else matching format, else first recorded
TieBreak(docUri, tokenDefs) ==
  LET same == SelectSeq(tokenDefs, LAMBDA d : SameFile(d.uri, docUri))
      format == SelectSeq(tokenDefs, LAMBDA d : FormatOfSource(d.source) = FormatOfUri(docUri))
  IN IF Len(same) > 0 THEN same[1]
     ELSE IF Len(format) > 0 THEN format[1]
     ELSE tokenDefs[1]

\* a syntactic node on the line has the text
NodeOnLine(doc, line, text) ==
  \E i \in 1..Len(doc.nodes) : doc.nodes[i].line = line /\ doc.nodes[i].text = text

\* C16: when the index holds several definitions for the hovered word, the
\* definition selected is one whose file is the requesting document, else
\* one whose source kind's format matches the requesting document's format,
\* else the first recorded; nothing is selected when no syntactic node on
\* the query's line has the word's text.
C16_TieBreak ==
  (call.fn = "findExactTokenDefinitionAtPosition" /\ call.stage = "done") =>
    LET doc == DocOf(call.uri)
        word == getWordAtPosition(doc, call.position)
    IN call.result = IF NodeOnLine(doc, call.position.line, word)
                     THEN TieBreak(call.uri, call.tokenDefs)
                     ELSE Undefined

----------------------------------------------------------------------------
\* the hover answer carries the usage annotation among its local values
HasAnnotation(answer, text) ==
  answer # Undefined /\ "values" \in DOMAIN answer /\ text \in Range(answer.values)

\* the hover answer lists the definitions, each in the group of its source
HasListing(answer, defs) ==
  /\ answer # Undefined
  /\ "groups" \in DOMAIN answer
  /\ \A d \in Range(defs) :
       \E g \in Range(answer.groups) : g.source = d.source /\ d \in Range(g.defs)

\* C17: hovering colorPrimary in token.colorPrimary, token destructured from
\* useToken(), on an initialized server: the answer carries the
\* informational token.colorPrimary usage annotation and no literal, and
\* when the index has entries for colorPrimary the answer also lists those
\* definitions grouped by source kind.
C17_AnnotationThenFallback ==
  (lastHover # NoRequest /\ isInitialized /\ lastHover.uri = ButtonUri
     /\ lastHover.position = Position(1, 30)) =>
    LET defs == IndexGet(tokenIndex, "colorPrimary")
    IN /\ HasAnnotation(lastHover.answer, "token.colorPrimary")
       /\ lastHover.answer.values = <<"token.colorPrimary">>
       /\ Len(defs) > 0 => HasListing(lastHover.answer, defs)

----------------------------------------------------------------------------
\* the definitions of a name that a file yielded
DefsFrom(index, name, uri) == SelectSeq(IndexGet(index, name), LAMBDA d : d.uri = uri)

\* C18: a JSON key with a string or number value that the token-name
\* predicate accepts yields exactly one definition, with source json,
\* position (0,0), the JSON serialisation of the value, and as context the
\* dotted path of keys from the root down to the object that contains the
\* key: for {"theme":{"token":{"colorPrimary":"#1890ff"}}} the definition of
\* colorPrimary has value "#1890ff" (quoted) and context theme.token.
C18_JsonDefinition ==
  (baseline.valid /\ fs[ThemeJson] = FirstVersion) =>
    LET defs == DefsFrom(baseline.index, "colorPrimary", PathJoin(Root, ThemeJson))
    IN /\ Len(defs) = 1
       /\ defs[1].source = "json"
       /\ defs[1].position = Position(0, 0)
       /\ defs[1].value = JsonStringify(Str("#1890ff"))
       /\ defs[1].context = "theme.token"

----------------------------------------------------------------------------
\* C19: for every name the order of the definitions in its list is the same
\* after every completed scan of unchanged input and is the order in which
\* the files were discovered, in whatever order the per-file tasks complete.
C19_StableListOrder ==
  [][ \A s \in 1..Len(scans) :
        CompletesUndisturbed(s) =>
          /\ tokenIndex' = IndexOfFiles(fs, scans'[s].files, EmptyIndex)
          /\ baseline.valid => tokenIndex' = baseline.index
    ]_vars

----------------------------------------------------------------------------
\* the maximal runs of word characters and hyphens of a line: a run is
\* [from, to], the 1-based indices of its first and of its last character
RunsOf(line) ==
  { r \in (1..Len(line)) \X (1..Len(line)) :
      /\ r[1] <= r[2]
      /\ \A k \in r[1]..r[2] : Char(line, k) \in WordOrHyphenChars
      /\ (r[1] = 1 \/ Char(line, r[1] - 1) \notin WordOrHyphenChars)
      /\ (r[2] = Len(line) \/ Char(line, r[2] + 1) \notin WordOrHyphenChars) }

\* the text of the run whose span contains the 0-based column, the empty
\* string when there is none; the span reaches from the run's first column
\* to after columns past its last character
WordOf(line, character, after) ==
  LET picked == { r \in RunsOf(line) :
                    character >= r[1] - 1 /\ character <= r[2] - 1 + after }
  IN IF picked = {} THEN ""
     ELSE LET r == CHOOSE q \in picked : \A o \in picked : q[1] <= o[1]
          IN Sub(line, r[1], r[2])

\* C20 as stated: getWordAtPosition returns the maximal run of word
\* characters and hyphens whose characters include the cursor column, and
\* the empty string when the column lies on no run: a cursor on a separator
\* between two runs returns no neighbouring word.
C20_WordAtPosition ==
  (call.fn = "getWordAtPosition" /\ call.stage = "done") =>
    call.result = WordOf(call.line, call.character, 0)

\* C20 amended: getWordAtPosition returns the maximal run of word characters
\* and hyphens whose span, from its first column to the column directly
\* after its last character, both included, contains the cursor column, and
\* the empty string when no run has such a span: a cursor on the separator
\* that follows a run returns that run.
C20_WordAtClosedSpan ==
  (call.fn = "getWordAtPosition" /\ call.stage = "done") =>
    call.result = WordOf(call.line, call.character, 1)

\* the cursor is on the dot of token.colorPrimary and the answer is token
C20_Witness ==
  /\ call.fn = "getWordAtPosition"
  /\ call.stage = "done"
  /\ call.line = "const style = { color: token.colorPrimary };"
  /\ call.character = 28
  /\ Char(call.line, call.character + 1) = "."
  /\ call.result = "token"

----------------------------------------------------------------------------
\* the expression a chain of keys leads to inside an expression, NoNode when
\* a step is no object literal or lacks the key
NoNode == [e |-> "none"]

RECURSIVE NodeAt(_, _)
NodeAt(expr, keys) ==
  IF keys = <<>> THEN expr
  ELSE IF expr.e # "ObjectLiteralExpression" THEN NoNode
  ELSE LET found == { i \in 1..Len(expr.props) : expr.props[i].key = Head(keys) }
       IN IF found = {} THEN NoNode
          ELSE NodeAt(expr.props[CHOOSE i \in found : \A k \in found : i <= k].init,
                      Tail(keys))

\* the end of the chain root.k1...kn among the declarations: the root is a
\* variable with an object-literal initializer
ChainEnd(decls, chain) ==
  LET roots == { i \in 1..Len(decls) :
                   /\ decls[i].node = "VariableDeclaration"
                   /\ decls[i].name = Head(chain)
                   /\ decls[i].init.e = "ObjectLiteralExpression" }
  IN IF roots = {} THEN NoNode
     ELSE NodeAt(decls[CHOOSE i \in roots : \A k \in roots : k <= i].init, Tail(chain))

\* C21: local resolution of an access chain root.k1...kn returns the text of
\* the string or number literal at the end of the chain exactly when root is
\* a variable of the file with an object-literal initializer and every step
\* is an object literal holding the next key; in every other case (missing
\* key, non-literal or object-valued end, non-object step) it yields no
\* local result.
C21_LocalChainResolution ==
  (call.fn = "resolveChainValue" /\ call.stage = "done") =>
    LET end == ChainEnd(ButtonDoc.decls, call.chain)
    IN call.result = IF end.e \in {"StringLiteral", "NumericLiteral"} THEN end.text
                     ELSE Null

----------------------------------------------------------------------------
\* the key starts with the prefix and a letter follows
PrefixThenLetter(key, prefix) ==
  /\ Len(key) > Len(prefix)
  /\ Sub(key, 1, Len(prefix)) = prefix
  /\ Sub(key, Len(prefix) + 1, Len(prefix) + 1) \in LetterChars

\* the token-name predicate as the sentence states it
AcceptedAsTokenName(key) ==
  \/ key \in commonAntdTokens
  \/ \E prefix \in {"color", "font", "line", "border", "spacing", "control", "motion", "size"} :
       PrefixThenLetter(key, prefix)
  \/ \E word \in {"primary", "secondary", "success", "warning", "error", "info"} :
       \E i \in 1..Len(key) : ToLowerCase(Sub(key, i, i + Len(word) - 1)) = word

\* C22: a key is accepted as a token name if and only if it is in the
\* well-known set, or starts with one of the prefixes color, font, line,
\* border, spacing, control, motion, size directly followed by a letter, or
\* its lower-cased form contains one of primary, secondary, success,
\* warning, error, info; the ts-morph pass over scripts and the JSON
\* extractor both record a key exactly when the predicate accepts it.
C22_TokenNamePredicate ==
  (call.fn = "isTokenKey" /\ call.stage = "done") =>
    /\ call.result.morph = AcceptedAsTokenName(call.key)
    /\ call.result.json = AcceptedAsTokenName(call.key)

\* both extractors have recorded a key that is not well known and that the
\* prefix rule accepts
C22_Witness ==
  /\ call.fn = "isTokenKey"
  /\ call.stage = "done"
  /\ call.key = "colorFoo"
  /\ call.key \notin commonAntdTokens
  /\ call.result = [morph |-> TRUE, json |-> TRUE]

----------------------------------------------------------------------------
\* the definition under the name is one the ThemeConfig detector draws from
\* a text the file has held: a property of a token object directly inside
\* the object literal of a variable declared as ThemeConfig
FromThemeConfigVariable(name, d) ==
  /\ IsScriptPath(d.uri)
  /\ \E p \in Paths : \E v \in {FirstVersion, EditedVersion} :
       /\ PathJoin(Root, p) = d.uri
       /\ <<name, d>> \in Range(extractFromThemeConfig(TextOf(p, v).decls, d.uri))

\* C23: each detector pass over a script tags its definitions with its own
\* source kind: the heuristic pass never uses the source kind of the
\* ThemeConfig or ConfigProvider detector, so every definition with source
\* themeConfig stems from a token object directly inside the object literal
\* of a variable whose declared type is ThemeConfig.
C23_DistinctSourceKinds ==
  \A n \in DOMAIN tokenIndex : \A d \in Range(tokenIndex[n]) :
    d.source = "themeConfig" => FromThemeConfigVariable(n, d)

----------------------------------------------------------------------------
\* C24: a definition query on an initialized server returns exactly one
\* location per definition the index holds for the resolved name (the
\* token.<name> property under the cursor if there is one, else the word
\* under the cursor), in index order and each with its definition's uri; it
\* returns the empty list when the name has no entry or the document is not
\* open.
C24_OneLocationPerDefinition ==
  (lastDefinition # NoRequest /\ isInitialized) =>
    LET defs == IndexGet(tokenIndex, SearchTermOf(lastDefinition))
        answer == lastDefinition.answer
    IN IF lastDefinition.uri \in openDocs
       THEN /\ Len(answer) = Len(defs)
            /\ \A i \in 1..Len(defs) : answer[i].uri = defs[i].uri
       ELSE answer = <<>>

\* an initialized server answers a query on an open document with several
\* locations, one per definition of the name
C24_Witness ==
  /\ lastDefinition # NoRequest
  /\ isInitialized
  /\ lastDefinition.uri \in openDocs
  /\ Len(lastDefinition.answer) > 1
  /\ Len(lastDefinition.answer) = Len(IndexGet(tokenIndex, SearchTermOf(lastDefinition)))

\* an initialized server, with definitions of the name in the index, answers
\* a query on a document that is not open with the empty list
C24_NotOpen ==
  /\ lastDefinition # NoRequest
  /\ isInitialized
  /\ lastDefinition.uri \notin openDocs
  /\ IndexGet(tokenIndex, SearchTermOf(lastDefinition)) # <<>>
  /\ lastDefinition.answer = <<>>

----------------------------------------------------------------------------
\* the identifier that follows column c of a line: the longest run of word
\* characters and hyphens from column c + 1 on (1-based columns)
IdentifierAfter(line, c) ==
  LET ends == { j \in c..Len(line) :
                  \A k \in (c + 1)..j : Sub(line, k, k) \in WordOrHyphenChars }
  IN Sub(line, c + 1, CHOOSE j \in ends : \A o \in ends : o <= j)

\* the occurrences of @ followed by an identifier: <<line, column>>, 1-based
SigilOccurrences(lines) ==
  UNION { { <<l, c>> : c \in { k \in 1..Len(lines[l]) :
                                  /\ Sub(lines[l], k, k) = "@"
                                  /\ IdentifierAfter(lines[l], k) # "" } } :
          l \in 1..Len(lines) }

\* C25: the style extractor records every occurrence: the number of
\* definitions under a name equals the number of occurrences of @ followed
\* by that identifier in the file, declarations and usages alike, and each
\* definition has source css, the identifier as value and the position
\* (line index, column of the @).
C25_EveryStyleOccurrence ==
  (call.fn = "extractFromCssLike" /\ call.stage = "done") =>
    LET adds == call.result
        occurrences == SigilOccurrences(call.lines)
        Definition(o) ==
          LET name == IdentifierAfter(call.lines[o[1]], o[2])
          IN <<name, TokenData("/ws/styles.less", name, o[1] - 1, o[2] - 1, "css", NoContext)>>
    IN /\ Len(adds) = Cardinality(occurrences)
       /\ \A o \in occurrences : \E i \in 1..Len(adds) : adds[i] = Definition(o)
       /\ \A i \in 1..Len(adds) : \E o \in occurrences : adds[i] = Definition(o)

\* a file with a declaration and two usages of one variable on a line has
\* been extracted: three definitions under the name
C25_Witness ==
  /\ call.fn = "extractFromCssLike"
  /\ call.stage = "done"
  /\ call.lines = <<"@gap: 4px; .x { margin: @gap @gap; }">>
  /\ Len(SelectSeq(call.result, LAMBDA a : a[1] = "gap")) = 3

----------------------------------------------------------------------------
\* this step is a hover or a definition request arriving
QueryArrives ==
  \/ lastHover = NoRequest /\ lastHover' # NoRequest
  \/ lastDefinition = NoRequest /\ lastDefinition' # NoRequest

\* C26: the index is mutated only during a scan: a hover query or a
\* definition query on an initialized server leaves the index, the root path
\* and the initialized flag unchanged and starts no scan.
C26_QueriesLeaveIndexAlone ==
  [][ (QueryArrives /\ isInitialized) =>
        /\ tokenIndex' = tokenIndex
        /\ rootPath' = rootPath
        /\ isInitialized' = isInitialized
        /\ scans' = scans
    ]_vars

\* a hover on an initialized server is being answered while the index holds
\* definitions and a further scan could still be started
C26_Witness ==
  /\ lastHover # NoRequest
  /\ isInitialized
  /\ lastHover.answer # Undefined
  /\ tokenIndex # EmptyIndex
  /\ CanStartScan

----------------------------------------------------------------------------
\* this step is the clear of a scan whose enumeration has just resolved
ClearStep ==
  /\ tokenIndex' = EmptyIndex
  /\ \E s \in 1..Len(scans) :
        scans[s].phase = "enumerating" /\ scans'[s].phase # "enumerating"

\* every name keeps its list, and each list is continued at its end
GrowsBySuffix ==
  /\ DOMAIN tokenIndex \subseteq DOMAIN tokenIndex'
  /\ \A n \in DOMAIN tokenIndex : IsPrefix(tokenIndex[n], tokenIndex'[n])

\* C27: append-only between clears: a step that changes the index is either
\* the clear at the start of a scan or appends definitions at the end of
\* names' lists; it never removes, reorders or modifies a definition already
\* in the index.
C27_AppendOnlyBetweenClears ==
  [][ tokenIndex' # tokenIndex => (ClearStep \/ GrowsBySuffix) ]_vars

\* a re-scan is extracting and a task has appended to a list that already
\* held a definition
C27_Witness ==
  /\ Len(scans) >= 2
  /\ scans[Len(scans)].phase = "extracting"
  /\ \E n \in DOMAIN tokenIndex : Len(tokenIndex[n]) >= 2

----------------------------------------------------------------------------
\* the promise of scan s has settled
Settled(s) == scans[s].outcome # "pending"

\* this step runs a per-file task of scan s
TaskOf(s) == s \in 1..Len(scans') /\ scans'[s].pending # scans[s].pending

\* C28: once the promise of a scan has settled, fulfilled or rejected, that
\* scan performs no further mutation of the index: no per-file task of a
\* rejected scan appends definitions after the failure has been reported.
C28_SettledScanIsQuiet ==
  [][ \A s \in 1..Len(scans) :
        (Settled(s) /\ TaskOf(s)) => tokenIndex' = tokenIndex ]_vars

----------------------------------------------------------------------------
\* some scan has completed successfully
SomeScanFulfilled == \E s \in 1..Len(scans) : scans[s].outcome = "fulfilled"

\* C29: the initialized flag is justified and monotonic: whenever
\* isInitialized is true a root path is set and at least one scan has
\* completed successfully, and no step sets a true flag back to false.
C29_InitializedJustifiedAndMonotonic ==
  /\ [](isInitialized => (rootPath # "" /\ SomeScanFulfilled))
  /\ [][isInitialized => isInitialized']_vars

\* the server is initialized and a later re-scan has failed
C29_Witness ==
  /\ isInitialized
  /\ \E s \in 1..Len(scans) : scans[s].outcome = "rejected"

----------------------------------------------------------------------------
\* this step delivers an event that falls back to a scan on a server that is
\* not initialized: a document is opened or a hover arrives
RetryEvent ==
  \/ openDocs' # openDocs
  \/ lastHover = NoRequest /\ lastHover' # NoRequest

\* scan s was started and rejected
Rejected(s) == s <= Len(scans) /\ scans[s].outcome = "rejected"

====
